---- MODULE Spec2Model ----
(***************************************************************************)
(* Housekeeping scripts of aws-toolbox as state machines.                  *)
(*                                                                         *)
(* Each script is a sequential program run once against an AWS account.    *)
(* The variable prog says which script the run is; the account (the        *)
(* "server" side: images, instances, security groups, ENIs, keys, the      *)
(* CloudTrail log, SageMaker apps and spaces) is drawn in Init, the        *)
(* answers of the individual API calls (success, ClientError) are drawn    *)
(* when the call is made.  calls is the history of the mutating API calls  *)
(* the run has issued, in order.                                           *)
(***************************************************************************)
EXTENDS Integers, Sequences, FiniteSets, TLC

\* an absent number: an argument left out, a date missing from the metadata
None == -1

\* ---------------------------------------------------------------- time
\* Timestamps are integers counted in ticks; a day is TicksPerDay ticks, so
\* that two timestamps can differ by a fraction of a day.
TicksPerDay == 2
MaxDays == 3
Now == MaxDays * TicksPerDay

\* datetime.timedelta(days=n)
timedelta(n) == n * TicksPerDay

\* (a - b).days : whole days of a timedelta, rounded towards minus infinity
days(delta) == delta \div TicksPerDay

\* ages (in ticks before Now) the resources and events of a run are drawn from:
\* around the one-day and the two-day boundary
AgeTicks == {TicksPerDay - 1, TicksPerDay, TicksPerDay + 1, 2 * TicksPerDay,
             2 * TicksPerDay + 1}
Timestamps == {Now - a : a \in AgeTicks}

\* ---------------------------------------------------------------- helpers
Range(s) == {s[i] : i \in 1..Len(s)}

RECURSIVE SetToSeq(_)
\* the elements of a set of integers in ascending order
SetToSeq(S) ==
    IF S = {} THEN <<>>
    ELSE LET m == CHOOSE x \in S : \A y \in S : x <= y
         IN <<m>> \o SetToSeq(S \ {m})

RECURSIVE SeqsUpTo(_, _)
\* all sequences over S of length at most n
SeqsUpTo(S, n) ==
    IF n = 0 THEN {<<>>}
    ELSE LET shorter == SeqsUpTo(S, n - 1)
         IN shorter \cup {Append(s, x) : s \in {t \in shorter : Len(t) = n - 1}, x \in S}

\* ---------------------------------------------------------------- bounds
NumAmis == 2
NumInstances == 2
NumSgs == 2
NumEnis == 2
NumApps == 1
NumSpaces == 1
NumKeys == 1
MaxEvents == 2

AmiIds == 1..NumAmis
SgIds == 1..NumSgs
AppIds == 1..NumApps
SpaceIds == 1..NumSpaces
KeyIds == 1..NumKeys


VARIABLES
    prog,               \* the script this run executes
    pc,                 \* position of the script
    dry_run,            \* --dry-run
    calls,              \* history: mutating API calls issued so far, in order
    scan_failed,        \* history: the enumeration of the holders raised ClientError
    \* ---- ec2_delete_old_amis.py
    retention_days,     \* --retention-days
    ami_creation,       \* account: image id -> CreationDate (None: not in the metadata)
    registered,         \* account: images that exist
    instances,          \* account: the ImageId of each instance, one instance per page
    owned_amis,         \* main: result of get_owned_amis
    in_use_amis,        \* main: result of get_in_use_amis
    amis_to_delete,     \* main: the AMIs selected for deregistration
    idx,                \* main: position in the loop over amis_to_delete
    deregistered_count, \* main
    \* ---- delete_unused_security_groups.py
    sg_type,            \* --type
    group_names,        \* account: group id -> GroupName
    sg_exists,          \* account: security groups that exist
    enis,               \* account: the group of each ENI, one ENI per page
    used_sg,            \* main: result of get_used_security_groups
    all_sg,             \* main: result of get_all_security_groups
    unused_sg,          \* main: all_sg - used_sg
    todo_sg,            \* delete_unused_security_groups: groups the loop has not visited
    sg_name,            \* delete_unused_security_groups: local sg_name
    sg_log,             \* delete_unused_security_groups: what was logged, per group
    \* ---- sm_delete_user_profile.py
    profile_status,     \* account: Status of the user profile
    app_status,         \* account: app id -> Status of the apps of the profile
    space_status,       \* account: space id -> Status of the spaces of the domain
    space_owner,        \* account: space id -> the space is owned by the profile
    user_profiles,      \* main: number of profiles list_all_user_profiles returned
    apps,               \* main: the apps found for the selected profile
    spaces,             \* main: the spaces found for the selected profile
    success_count,      \* main
    total_items,        \* main
    sm_idx,             \* main: position in the loop over apps / over spaces
    elapsed_time,       \* wait_for_apps_deletion / wait_for_spaces_deletion
    failed_deletes,     \* history: the delete calls that returned False
    poll_errors,        \* history: a poll's listing raised ClientError
    timed_out,          \* history: a wait returned False
    \* ---- kms_delete_unused_keys.py
    unused_days,        \* --unused-days
    check_usage_days,   \* --check-usage-days
    state_filter,       \* --state
    skip_usage_check,   \* --skip-usage-check
    no_confirm,         \* --no-confirm
    kms_keys,           \* account: key id -> KeyMetadata, and the day it was created
    key_usage_map,      \* main: result of build_key_usage_map
    last_usage,         \* history: key id -> last usage event in the log that was scanned
    trail_error,        \* history: the error lookup_events raised during the scan
    undescribed,        \* history: the keys whose describe_key raised ClientError
    keys_info,          \* main: result of list_customer_managed_keys
    kms_idx,            \* position in the loop over the keys / over keys_info
    kms_success_count,  \* main: success_count
    failed_count,       \* main
    exit_code,          \* main: the value returned (None: still running)
    \* ---- build_key_usage_map, run on its own
    trail,              \* account: the KMS events of the CloudTrail log, in the order returned
    page_size,          \* account: the number of events lookup_events puts on a page
    scan_idx,           \* build_key_usage_map: the events of the pages received so far
    \* ---- kms_delete_keys_by_tag.py (with the variables of the keys above)
    tag_value,          \* --tag-value
    key_tags,           \* account: key id -> the value of the tag --tag-key (NoTag: none)
    exclude_key_ids,    \* main: the key ids of --exclude-keys
    \* ---- kms_delete_unused_keys.py --dry-run, run twice in a row
    run_no,             \* the run that is going on: 1 or 2
    clock,              \* datetime.now() of the run, in ticks after Now
    first_listed,       \* history: the keys the first run listed for deletion
    faulty,             \* history: an API call of one of the runs raised ClientError
    \* ---- the confirmation prompt of the KMS schedulers and of the profile teardown
    typed,              \* history: what the operator typed at the prompt
    \* ---- org_generate_mermaid_diagram.py and org_get_account_details.py
    ou_children,        \* Organizations: parent id -> the OUs list_organizational_units_for_parent gives
    ou_parent,          \* Organizations: OU id -> the first parent list_parents gives
    account_parent,     \* Organizations: the first parent of the account looked up
    stack,              \* get_organizational_units: the calls that have not returned
    ous_seen,           \* get_organizational_units: the OUs appended to a result so far
    current_id,         \* get_parent_ou_path
    path_parts,         \* get_parent_ou_path
    \* ---- sm_cleanup_spaces.py
    domain_spaces,      \* SageMaker: space -> the status list_spaces gives
    listed_spaces,      \* main: active_spaces, what list_all_active_spaces returned
    selected_spaces,    \* main: what interactive_space_selection returned
    space_idx,          \* main: position of the loop over selected_spaces
    deleted_count,      \* main: success_count
    found               \* history: resource -> the status its listing gave at discovery

commonVars == <<prog, pc, dry_run, calls, scan_failed>>
amiVars == <<retention_days, ami_creation, registered, instances, owned_amis,
             in_use_amis, amis_to_delete, idx, deregistered_count>>
sgVars == <<sg_type, group_names, sg_exists, enis, used_sg, all_sg, unused_sg,
            todo_sg, sg_name, sg_log>>
smVars == <<profile_status, app_status, space_status, space_owner, user_profiles,
            apps, spaces, success_count, total_items, sm_idx, elapsed_time,
            failed_deletes, poll_errors, timed_out>>
kmsVars == <<unused_days, check_usage_days, state_filter, skip_usage_check, no_confirm,
             kms_keys, key_usage_map, last_usage, trail_error, undescribed, keys_info,
             kms_idx, kms_success_count, failed_count, exit_code>>
scanVars == <<trail, page_size, scan_idx>>
tagVars == <<tag_value, key_tags, exclude_key_ids>>
rerunVars == <<run_no, clock, first_listed, faulty>>
orgVars == <<ou_children, ou_parent, account_parent, stack, ous_seen, current_id, path_parts>>
spaceVars == <<domain_spaces, listed_spaces, selected_spaces, space_idx, deleted_count, found>>
vars == <<commonVars, amiVars, sgVars, smVars, kmsVars, scanVars, tagVars, rerunVars, orgVars, typed,
          spaceVars>>

\* what a step of one script leaves alone: the state of the other scripts
notAmi == <<sgVars, smVars, kmsVars, scanVars, tagVars, rerunVars, orgVars, typed, spaceVars>>
notSg == <<amiVars, smVars, kmsVars, scanVars, tagVars, rerunVars, orgVars, typed, spaceVars>>
notSmList == <<amiVars, sgVars, kmsVars, scanVars, tagVars, rerunVars, orgVars, domain_spaces,
               listed_spaces, selected_spaces, space_idx, deleted_count>>
notSmPrompt == <<notSmList, found>>
notSm == <<notSmPrompt, typed>>
notKmsPrompt == <<amiVars, sgVars, smVars, scanVars, tagVars, rerunVars, orgVars, spaceVars>>
notKms == <<notKmsPrompt, typed>>
notScan == <<amiVars, sgVars, smVars, tagVars, rerunVars, orgVars, typed, spaceVars>>
notTagPrompt == <<amiVars, sgVars, smVars, scanVars, rerunVars, orgVars, spaceVars>>
notTag == <<notTagPrompt, typed>>
notRerun == <<amiVars, sgVars, smVars, tagVars, page_size, scan_idx, orgVars, typed, spaceVars>>
notOrg == <<amiVars, sgVars, smVars, kmsVars, scanVars, tagVars, rerunVars, typed, spaceVars>>
notSpacesPrompt == <<amiVars, sgVars, smVars, kmsVars, scanVars, tagVars, rerunVars, orgVars>>
notSpaces == <<notSpacesPrompt, typed>>

Call(op, id, dry) == [op |-> op, id |-> id, dry |-> dry]

\* =====================================================================
\* archived/ec2/ec2_delete_old_amis.py
\* =====================================================================
RetentionDaysInputs == {None, 1, 2}

AmiIdle ==
    /\ retention_days = None
    /\ ami_creation = <<>>
    /\ registered = {}
    /\ instances = <<>>
    /\ owned_amis = <<>>
    /\ in_use_amis = {}
    /\ amis_to_delete = <<>>
    /\ idx = 0
    /\ deregistered_count = 0

InitAmi ==
    /\ prog = "ami"
    /\ pc = "ami_start"
    /\ dry_run \in BOOLEAN
    /\ calls = <<>>
    /\ scan_failed = FALSE
    /\ retention_days \in RetentionDaysInputs
    /\ ami_creation \in [AmiIds -> Timestamps \cup {None}]
    /\ registered = AmiIds
    /\ instances \in SeqsUpTo(AmiIds, NumInstances)
    /\ owned_amis = <<>>
    /\ in_use_amis = {}
    /\ amis_to_delete = <<>>
    /\ idx = 0
    /\ deregistered_count = 0

\* main, lines 93-95: retention_days is None -> return
AmiNoRetention ==
    /\ prog = "ami" /\ pc = "ami_start"
    /\ retention_days = None
    /\ pc' = "done"
    /\ UNCHANGED <<prog, dry_run, calls, scan_failed, amiVars, notAmi>>

\* get_owned_amis: every image of the account, or [] on ClientError
AmiGetOwnedAmis ==
    /\ prog = "ami" /\ pc = "ami_start"
    /\ retention_days # None
    /\ \E outcome \in {"ok", "ClientError"} :
          owned_amis' = IF outcome = "ok" THEN SetToSeq(registered) ELSE <<>>
    /\ pc' = "ami_in_use"
    /\ UNCHANGED <<prog, dry_run, calls, scan_failed, retention_days, ami_creation,
                   registered, instances, in_use_amis, amis_to_delete, idx,
                   deregistered_count, notAmi>>

\* get_in_use_amis: the ImageId of every instance over all pages; when a page
\* request raises ClientError the function returns set(), whatever was collected
get_in_use_amis(pages, failed) ==
    IF failed THEN {} ELSE Range(pages)

AmiGetInUseAmis ==
    /\ prog = "ami" /\ pc = "ami_in_use"
    /\ \E failed \in BOOLEAN :
          /\ in_use_amis' = get_in_use_amis(instances, failed)
          /\ scan_failed' = failed
    /\ pc' = "ami_select"
    /\ UNCHANGED <<prog, dry_run, calls, retention_days, ami_creation, registered,
                   instances, owned_amis, amis_to_delete, idx, deregistered_count, notAmi>>

\* main, lines 108-119: the owned AMIs created before the cutoff and not in use
AmisToDelete_NoInUseCheck(owned, in_use, cutoff_date) ==
    SelectSeq(owned, LAMBDA a : ami_creation[a] < cutoff_date)

AmisToDelete(owned, in_use, cutoff_date) ==
    SelectSeq(owned, LAMBDA a : ami_creation[a] < cutoff_date /\ a \notin in_use)

\* main, lines 101-125
AmiSelect ==
    /\ prog = "ami" /\ pc = "ami_select"
    /\ IF owned_amis = <<>>
       THEN /\ pc' = "done"
            /\ UNCHANGED amis_to_delete
       ELSE IF \E i \in 1..Len(owned_amis) : ami_creation[owned_amis[i]] = None
       THEN \* ami["CreationDate"] raises KeyError, which nothing catches
            /\ pc' = "crashed"
            /\ UNCHANGED amis_to_delete
       ELSE LET cutoff_date == Now - timedelta(retention_days)
                selected == AmisToDelete(owned_amis, in_use_amis, cutoff_date)
            IN /\ amis_to_delete' = selected
               /\ pc' = IF selected = <<>> THEN "done" ELSE "ami_deregister"
    /\ idx' = 1
    /\ UNCHANGED <<prog, dry_run, calls, scan_failed, retention_days, ami_creation,
                   registered, instances, owned_amis, in_use_amis, deregistered_count, notAmi>>

\* deregister_ami: one iteration of the loop of main, lines 128-130.
\* With DryRun=True EC2 changes nothing and answers with the error DryRunOperation
\* (or with another error); without it the image is deregistered or the call fails.
AmiDeregister ==
    /\ prog = "ami" /\ pc = "ami_deregister"
    /\ idx <= Len(amis_to_delete)
    /\ LET image_id == amis_to_delete[idx] IN
       /\ calls' = Append(calls, Call("deregister_image", image_id, dry_run))
       /\ \E answer \in {"ok", "DryRunOperation", "ClientError"} :
             /\ answer = "ok" => ~dry_run
             /\ answer = "DryRunOperation" => dry_run
             /\ registered' = IF answer = "ok" THEN registered \ {image_id} ELSE registered
             /\ deregistered_count' = IF answer \in {"ok", "DryRunOperation"}
                                      THEN deregistered_count + 1
                                      ELSE deregistered_count
    /\ idx' = idx + 1
    /\ UNCHANGED <<prog, pc, dry_run, scan_failed, retention_days, ami_creation,
                   instances, owned_amis, in_use_amis, amis_to_delete, notAmi>>

\* main, lines 132-141: the summary
AmiSummary ==
    /\ prog = "ami" /\ pc = "ami_deregister"
    /\ idx > Len(amis_to_delete)
    /\ pc' = "done"
    /\ UNCHANGED <<prog, dry_run, calls, scan_failed, amiVars, notAmi>>

NextAmi ==
    \/ AmiNoRetention
    \/ AmiGetOwnedAmis
    \/ AmiGetInUseAmis
    \/ AmiSelect
    \/ AmiDeregister
    \/ AmiSummary

\* =====================================================================
\* general/delete_unused_security_groups.py
\* =====================================================================
\* A group name is a sequence of characters.
Web == <<"w", "e", "b">>
DefaultSg == <<"D", "e", "f", "a", "u", "l", "t", "-", "s", "g">>
RdsDb == <<"r", "d", "s", "-", "d", "b">>
ElbWeb == <<"E", "L", "B", "-", "w", "e", "b">>
RdsDefault == <<"r", "d", "s", "-", "d", "e", "f", "a", "u", "l", "t">>
GroupNames == {Web, DefaultSg, RdsDb, ElbWeb, RdsDefault}

\* str.lower(), on the characters the names are made of
LowerChar(c) ==
    CASE c = "D" -> "d"
      [] c = "E" -> "e"
      [] c = "L" -> "l"
      [] c = "B" -> "b"
      [] c = "Y" -> "y"
      [] c = "S" -> "s"
      [] OTHER -> c

lower(s) == [i \in 1..Len(s) |-> LowerChar(s[i])]

RECURSIVE lstrip(_)
\* str.lstrip(), str.rstrip(), str.strip(): the whitespace at the ends is removed
lstrip(s) == IF s # <<>> /\ s[1] = " " THEN lstrip(Tail(s)) ELSE s

RECURSIVE rstrip(_)
rstrip(s) ==
    IF s # <<>> /\ s[Len(s)] = " " THEN rstrip(SubSeq(s, 1, Len(s) - 1)) ELSE s

strip(s) == rstrip(lstrip(s))

\* what input() can return at a yes/no prompt; NotAsked: input() was not called
\* (input() returns the line without its newline)
yes == <<"y", "e", "s">>
Answers == {yes, <<"Y", "E", "S">>, <<" ", "y", "e", "s">>, <<"n", "o">>}
NotAsked == <<"\n">>

Unasked == typed = NotAsked

\* s.startswith(prefix)
startswith(s, prefix) ==
    /\ Len(prefix) <= Len(s)
    /\ \A i \in 1..Len(prefix) : s[i] = prefix[i]

\* sub in s
contains(s, sub) ==
    \E k \in 0..(Len(s) - Len(sub)) : \A i \in 1..Len(sub) : s[k + i] = sub[i]

rds_ == <<"r", "d", "s", "-">>
elb_ == <<"e", "l", "b", "-">>
default == <<"d", "e", "f", "a", "u", "l", "t">>

SgTypes == {"all", "ec2", "rds", "elb"}

\* the local sg_name before its first assignment
Unbound == <<>>

SgIdle ==
    /\ sg_type = "all"
    /\ group_names = <<>>
    /\ sg_exists = {}
    /\ enis = <<>>
    /\ used_sg = {}
    /\ all_sg = {}
    /\ unused_sg = {}
    /\ todo_sg = {}
    /\ sg_name = Unbound
    /\ sg_log = <<>>

InitSg ==
    /\ prog = "sg"
    /\ pc = "sg_start"
    /\ dry_run \in BOOLEAN
    /\ calls = <<>>
    /\ scan_failed = FALSE
    /\ sg_type \in SgTypes
    /\ group_names \in [SgIds -> GroupNames]
    /\ sg_exists = SgIds
    /\ enis \in SeqsUpTo(SgIds, NumEnis)
    /\ used_sg = {}
    /\ all_sg = {}
    /\ unused_sg = {}
    /\ todo_sg = {}
    /\ sg_name = Unbound
    /\ sg_log = <<>>

\* Pages of a paginator: the request of a page may raise ClientError; got is the
\* number of pages received before that.  A listing of n items, one item per page
\* (an empty listing is one empty page), fails at one of its requests or at none.
Fetched(n, got, failed) ==
    IF failed THEN got < (IF n = 0 THEN 1 ELSE n) ELSE got = n

\* get_used_security_groups: the GroupId of the groups of the ENIs on the pages
\* received; a ClientError ends the loop and what was collected is returned
get_used_security_groups(pages, got) ==
    {pages[i] : i \in 1..got}

SgGetUsed ==
    /\ prog = "sg" /\ pc = "sg_start"
    /\ \E failed \in BOOLEAN, got \in 0..Len(enis) :
          /\ Fetched(Len(enis), got, failed)
          /\ used_sg' = get_used_security_groups(enis, got)
          /\ scan_failed' = failed
    /\ pc' = "sg_get_all"
    /\ UNCHANGED <<prog, dry_run, calls, sg_type, group_names, sg_exists, enis,
                   all_sg, unused_sg, todo_sg, sg_name, sg_log, notSg>>

\* get_all_security_groups, lines 86-94: does the --type filter select the name
TypeSelects(type, name) ==
    LET group_name == lower(name) IN
    \/ type = "all"
    \/ type = "ec2" /\ ~(startswith(group_name, rds_) \/ startswith(group_name, elb_))
    \/ type = "rds" /\ startswith(group_name, rds_)
    \/ type = "elb" /\ startswith(group_name, elb_)

\* get_all_security_groups: the selected groups on the pages received
get_all_security_groups(groups, type, got) ==
    {groups[i] : i \in {j \in 1..got : TypeSelects(type, group_names[groups[j]])}}

\* main, lines 134-140
SgGetAll ==
    /\ prog = "sg" /\ pc = "sg_get_all"
    /\ LET groups == SetToSeq(sg_exists) IN
       \E failed \in BOOLEAN, got \in 0..Len(groups) :
          /\ Fetched(Len(groups), got, failed)
          /\ all_sg' = get_all_security_groups(groups, sg_type, got)
    /\ unused_sg' = all_sg' \ used_sg
    /\ todo_sg' = unused_sg'
    /\ pc' = "sg_delete"
    /\ UNCHANGED <<prog, dry_run, calls, scan_failed, sg_type, group_names, sg_exists,
                   enis, used_sg, sg_name, sg_log, notSg>>

\* delete_unused_security_groups, line 107: the name is protected
Protected_CaseSensitive(name) == contains(name, default)

Protected(name) == contains(lower(name), default)

\* delete_unused_security_groups, lines 117-124: whatever delete_security_group
\* answers, a ClientError included, the loop goes on with the next group
AfterDelete_DependencyUncaught(answer) ==
    IF answer = "DependencyViolation" THEN "crashed" ELSE "sg_delete"

AfterDelete(answer) == "sg_delete"

\* ENIs that hold the group: EC2 refuses to delete such a group
Attached(sg_id) == \E i \in 1..Len(enis) : enis[i] = sg_id

Logged(sg_id, name, what) == [id |-> sg_id, name |-> name, what |-> what]

\* delete_unused_security_groups: one iteration of the loop over unused_sg
\* (a set: the order of the iteration is not fixed)
SgDeleteOne ==
    /\ prog = "sg" /\ pc = "sg_delete"
    /\ \E sg_id \in todo_sg :
       /\ todo_sg' = todo_sg \ {sg_id}
       /\ \E described \in BOOLEAN :
          IF ~described
          THEN \* describe_security_groups raised ClientError: the handler formats
               \* sg_name, which is unbound in the first iteration (UnboundLocalError)
               /\ IF sg_name = Unbound
                  THEN pc' = "crashed" /\ UNCHANGED sg_log
                  ELSE /\ pc' = pc
                       /\ sg_log' = Append(sg_log, Logged(sg_id, sg_name, "error"))
               /\ UNCHANGED <<sg_name, calls, sg_exists>>
          ELSE /\ sg_name' = group_names[sg_id]
               /\ IF Protected(sg_name')
                  THEN /\ sg_log' = Append(sg_log, Logged(sg_id, sg_name', "skip_default"))
                       /\ UNCHANGED <<pc, calls, sg_exists>>
                  ELSE IF dry_run
                  THEN /\ sg_log' = Append(sg_log, Logged(sg_id, sg_name', "would_delete"))
                       /\ UNCHANGED <<pc, calls, sg_exists>>
                  ELSE /\ calls' = Append(calls, Call("delete_security_group", sg_id, FALSE))
                       /\ \E answer \in {"ok", "DependencyViolation", "ClientError"} :
                             /\ answer = "ok" => ~Attached(sg_id)
                             /\ pc' = AfterDelete(answer)
                             /\ sg_exists' = IF answer = "ok" THEN sg_exists \ {sg_id}
                                             ELSE sg_exists
                             /\ sg_log' = Append(sg_log, Logged(sg_id, sg_name',
                                   CASE answer = "ok" -> "deleting"
                                     [] answer = "DependencyViolation" -> "skip_dependent"
                                     [] OTHER -> "error"))
    /\ UNCHANGED <<prog, dry_run, scan_failed, sg_type, group_names, enis, used_sg,
                   all_sg, unused_sg, notSg>>

\* delete_unused_security_groups returns, main returns
SgDone ==
    /\ prog = "sg" /\ pc = "sg_delete"
    /\ todo_sg = {}
    /\ pc' = "done"
    /\ UNCHANGED <<prog, dry_run, calls, scan_failed, sgVars, notSg>>

NextSg ==
    \/ SgGetUsed
    \/ SgGetAll
    \/ SgDeleteOne
    \/ SgDone

\* =====================================================================
\* archived/sagemaker/sm_delete_user_profile.py
\* =====================================================================
\* wait_for_apps_deletion
apps_max_wait_time == 300
apps_wait_interval == 10
\* wait_for_spaces_deletion
spaces_max_wait_time == 600
spaces_wait_interval == 15

SmIdle ==
    /\ profile_status = "InService"
    /\ app_status = <<>>
    /\ space_status = <<>>
    /\ space_owner = <<>>
    /\ user_profiles = 0
    /\ apps = <<>>
    /\ spaces = <<>>
    /\ success_count = 0
    /\ total_items = 0
    /\ sm_idx = 0
    /\ elapsed_time = 0
    /\ failed_deletes = {}
    /\ poll_errors = FALSE
    /\ timed_out = FALSE

InitSm ==
    /\ prog = "sm"
    /\ pc = "sm_start"
    /\ dry_run = FALSE
    /\ calls = <<>>
    /\ scan_failed = FALSE
    /\ profile_status \in {"InService", "Deleting", "Delete_Failed"}
    /\ app_status \in [AppIds -> {"InService", "Deleting", "Deleted"}]
    /\ space_status \in [SpaceIds -> {"InService", "Deleting"}]
    /\ space_owner \in [SpaceIds -> BOOLEAN]
    \* the spaces of other profiles are in service
    /\ \A s \in SpaceIds : ~space_owner[s] => space_status[s] = "InService"
    /\ user_profiles = 0
    /\ apps = <<>>
    /\ spaces = <<>>
    /\ success_count = 0
    /\ total_items = 0
    /\ sm_idx = 0
    /\ elapsed_time = 0
    /\ failed_deletes = {}
    /\ poll_errors = FALSE
    /\ timed_out = FALSE

\* list_all_user_profiles, line 101: profiles on their way out are left out
ProfileListed(status) == status \notin {"Deleting", "Delete_Failed"}

\* list_all_user_profiles: the profile of the domain, unless a listing
\* (list_domains, list_user_profiles) raised ClientError; main, lines 323-327
SmListProfiles ==
    /\ prog = "sm" /\ pc = "sm_start"
    /\ \E listed \in BOOLEAN :
          /\ user_profiles' = IF listed /\ ProfileListed(profile_status) THEN 1 ELSE 0
          /\ found' = IF listed THEN <<profile_status>> ELSE <<>>
    /\ pc' = IF user_profiles' = 0 THEN "done" ELSE "sm_select"
    /\ UNCHANGED <<prog, dry_run, calls, scan_failed, profile_status, app_status,
                   space_status, space_owner, apps, spaces, success_count, total_items,
                   sm_idx, elapsed_time, failed_deletes, poll_errors, timed_out,
                   notSmList, typed>>

\* list_apps_for_user_profile: the apps of the profile, [] on ClientError
list_apps_for_user_profile(listed) ==
    IF listed THEN SetToSeq(AppIds) ELSE <<>>

\* list_spaces_for_user_profile: the spaces of the domain whose describe_space
\* names the profile as owner ({} when describe_space raised ClientError), [] when
\* list_spaces raised ClientError.  A deleted space is no longer listed.
list_spaces_for_user_profile(listed, described) ==
    IF listed
    THEN SetToSeq({s \in SpaceIds : /\ space_status[s] # "Deleted"
                                    /\ s \in described
                                    /\ space_owner[s]})
    ELSE <<>>

\* interactive_user_profile_selection and main, lines 330-341: the operator picks
\* the profile or cancels; the dependencies of the selected profile are listed
SmSelect ==
    /\ prog = "sm" /\ pc = "sm_select"
    /\ \E selected \in BOOLEAN :
          IF ~selected
          THEN pc' = "done" /\ UNCHANGED <<apps, spaces>>
          ELSE /\ pc' = "sm_confirm"
               /\ \E listed \in BOOLEAN :
                     apps' = list_apps_for_user_profile(listed)
               /\ \E listed \in BOOLEAN, described \in SUBSET SpaceIds :
                     spaces' = list_spaces_for_user_profile(listed, described)
    /\ UNCHANGED <<prog, dry_run, calls, scan_failed, profile_status, app_status,
                   space_status, space_owner, user_profiles, success_count, total_items,
                   sm_idx, elapsed_time, failed_deletes, poll_errors, timed_out,
                   notSm>>

\* main, line 383: the profile is deleted only when every dependent's delete
\* call returned True
ProfileDeleteAllowed(success, total) == total = 0 \/ success = total

\* main, lines 382-391: where main goes on once the spaces are dealt with
AfterSpaces(success, total) ==
    IF ProfileDeleteAllowed(success, total) THEN "sm_delete_profile"
    ELSE "sm_skip_profile"

\* main, lines 368-391: where main goes on once the apps are dealt with
AfterApps_NoSpaces(sp, success, total) == "sm_delete_profile"

AfterApps(sp, success, total) ==
    IF sp # <<>> THEN "sm_delete_spaces" ELSE AfterSpaces(success, total)

\* show_dependencies_and_confirm, lines 303-307: input(...).lower() == "yes"
show_dependencies_and_confirm(confirmation) == lower(confirmation) = yes

\* show_dependencies_and_confirm and main, lines 344-353
SmConfirm ==
    /\ prog = "sm" /\ pc = "sm_confirm"
    /\ \E confirmation \in Answers :
          /\ typed' = confirmation
          /\ pc' = IF ~show_dependencies_and_confirm(confirmation) THEN "done"
                   ELSE IF apps # <<>> THEN "sm_delete_apps"
                   ELSE AfterApps(spaces, 0, Len(apps) + Len(spaces))
    /\ success_count' = 0
    /\ total_items' = Len(apps) + Len(spaces)
    /\ sm_idx' = 1
    /\ UNCHANGED <<prog, dry_run, calls, scan_failed, profile_status, app_status,
                   space_status, space_owner, user_profiles, apps, spaces, elapsed_time,
                   failed_deletes, poll_errors, timed_out, notSmPrompt>>

\* delete_app, called by the loop of main, lines 355-359.  SageMaker accepts the
\* call only for an app that is not deleted or being deleted already.
SmDeleteApp ==
    /\ prog = "sm" /\ pc = "sm_delete_apps"
    /\ sm_idx <= Len(apps)
    /\ LET app == apps[sm_idx] IN
       /\ calls' = Append(calls, Call("delete_app", app, FALSE))
       /\ \E answer \in {"ok", "ClientError"} :
             /\ answer = "ok" => app_status[app] \in {"InService", "Failed"}
             /\ IF answer = "ok"
                THEN /\ app_status' = [app_status EXCEPT ![app] = "Deleting"]
                     /\ success_count' = success_count + 1
                     /\ UNCHANGED failed_deletes
                ELSE /\ failed_deletes' = failed_deletes \cup {<<"app", app>>}
                     /\ UNCHANGED <<app_status, success_count>>
    /\ sm_idx' = sm_idx + 1
    /\ UNCHANGED <<prog, pc, dry_run, scan_failed, profile_status, space_status,
                   space_owner, user_profiles, apps, spaces, total_items, elapsed_time,
                   poll_errors, timed_out, notSm>>

\* main, line 361: the loop over the apps is over, wait_for_apps_deletion starts
SmAppsDeleted ==
    /\ prog = "sm" /\ pc = "sm_delete_apps"
    /\ sm_idx > Len(apps)
    /\ pc' = "sm_wait_apps"
    /\ elapsed_time' = 0
    /\ UNCHANGED <<prog, dry_run, calls, scan_failed, profile_status, app_status,
                   space_status, space_owner, user_profiles, apps, spaces, success_count,
                   total_items, sm_idx, failed_deletes, poll_errors, timed_out, notSm>>

\* wait_for_apps_deletion, line 191 (and wait_for_spaces_deletion, line 216):
\* the listed dependents that still count as active
Active(remaining, status) ==
    {d \in Range(remaining) : status[d] \notin {"Deleted", "Failed"}}

\* wait_for_apps_deletion: one iteration of the loop, lines 189-199; the wait
\* returns True when no listed app is active; main, lines 362-369
SmPollApps ==
    /\ prog = "sm" /\ pc = "sm_wait_apps"
    /\ elapsed_time < apps_max_wait_time
    /\ \E listed \in BOOLEAN :
          LET remaining_apps == list_apps_for_user_profile(listed)
              active_apps == Active(remaining_apps, app_status)
          IN /\ poll_errors' = (poll_errors \/ ~listed)
             /\ IF active_apps = {}
                THEN /\ pc' = AfterApps(spaces, success_count, total_items)
                     /\ sm_idx' = 1
                     /\ elapsed_time' = 0
                ELSE /\ elapsed_time' = elapsed_time + apps_wait_interval
                     /\ UNCHANGED <<pc, sm_idx>>
    /\ UNCHANGED <<prog, dry_run, calls, scan_failed, profile_status, app_status,
                   space_status, space_owner, user_profiles, apps, spaces, success_count,
                   total_items, failed_deletes, timed_out, notSm>>

\* wait_for_apps_deletion, lines 201-202: timeout, the wait returns False;
\* main, lines 365-366: main returns
AfterAppsTimeout_GoesOn == "sm_delete_spaces"

AfterAppsTimeout == "done"

SmAppsTimeout ==
    /\ prog = "sm" /\ pc = "sm_wait_apps"
    /\ elapsed_time >= apps_max_wait_time
    /\ timed_out' = TRUE
    /\ pc' = AfterAppsTimeout
    /\ UNCHANGED <<prog, dry_run, calls, scan_failed, profile_status, app_status,
                   space_status, space_owner, user_profiles, apps, spaces, success_count,
                   total_items, sm_idx, elapsed_time, failed_deletes, poll_errors,
                   notSm>>

\* delete_space, called by the loop of main, lines 371-373
SmDeleteSpace ==
    /\ prog = "sm" /\ pc = "sm_delete_spaces"
    /\ sm_idx <= Len(spaces)
    /\ LET space == spaces[sm_idx] IN
       /\ calls' = Append(calls, Call("delete_space", space, FALSE))
       /\ \E answer \in {"ok", "ClientError"} :
             /\ answer = "ok" => space_status[space] \in {"InService", "Failed", "Delete_Failed"}
             /\ IF answer = "ok"
                THEN /\ space_status' = [space_status EXCEPT ![space] = "Deleting"]
                     /\ success_count' = success_count + 1
                     /\ UNCHANGED failed_deletes
                ELSE /\ failed_deletes' = failed_deletes \cup {<<"space", space>>}
                     /\ UNCHANGED <<space_status, success_count>>
    /\ sm_idx' = sm_idx + 1
    /\ UNCHANGED <<prog, pc, dry_run, scan_failed, profile_status, app_status,
                   space_owner, user_profiles, apps, spaces, total_items, elapsed_time,
                   poll_errors, timed_out, notSm>>

\* main, line 375: the loop over the spaces is over, wait_for_spaces_deletion starts
SmSpacesDeleted ==
    /\ prog = "sm" /\ pc = "sm_delete_spaces"
    /\ sm_idx > Len(spaces)
    /\ pc' = "sm_wait_spaces"
    /\ elapsed_time' = 0
    /\ UNCHANGED <<prog, dry_run, calls, scan_failed, profile_status, app_status,
                   space_status, space_owner, user_profiles, apps, spaces, success_count,
                   total_items, sm_idx, failed_deletes, poll_errors, timed_out, notSm>>

\* wait_for_spaces_deletion: one iteration of the loop, lines 214-227
SmPollSpaces ==
    /\ prog = "sm" /\ pc = "sm_wait_spaces"
    /\ elapsed_time < spaces_max_wait_time
    /\ \E poll \in {<<list_spaces_for_user_profile(listed, described),
                       ~listed \/ described # SpaceIds>> :
                          listed \in BOOLEAN, described \in SUBSET SpaceIds} :
          LET remaining_spaces == poll[1]
              active_spaces == Active(remaining_spaces, space_status)
          IN /\ poll_errors' = (poll_errors \/ poll[2])
             /\ IF active_spaces = {}
                THEN /\ pc' = AfterSpaces(success_count, total_items)
                     /\ elapsed_time' = 0
                ELSE /\ elapsed_time' = elapsed_time + spaces_wait_interval
                     /\ UNCHANGED pc
    /\ UNCHANGED <<prog, dry_run, calls, scan_failed, profile_status, app_status,
                   space_status, space_owner, user_profiles, apps, spaces, success_count,
                   total_items, sm_idx, failed_deletes, timed_out, notSm>>

\* wait_for_spaces_deletion, lines 229-230, and main, lines 379-380
SmSpacesTimeout ==
    /\ prog = "sm" /\ pc = "sm_wait_spaces"
    /\ elapsed_time >= spaces_max_wait_time
    /\ timed_out' = TRUE
    /\ pc' = "done"
    /\ UNCHANGED <<prog, dry_run, calls, scan_failed, profile_status, app_status,
                   space_status, space_owner, user_profiles, apps, spaces, success_count,
                   total_items, sm_idx, elapsed_time, failed_deletes, poll_errors,
                   notSm>>

\* main, lines 384-388, and delete_user_profile
SmDeleteProfile ==
    /\ prog = "sm" /\ pc = "sm_delete_profile"
    /\ calls' = Append(calls, Call("delete_user_profile", 1, FALSE))
    /\ \E answer \in {"ok", "ClientError"} :
          profile_status' = IF answer = "ok" THEN "Deleting" ELSE profile_status
    /\ pc' = "done"
    /\ UNCHANGED <<prog, dry_run, scan_failed, app_status, space_status, space_owner,
                   user_profiles, apps, spaces, success_count, total_items, sm_idx,
                   elapsed_time, failed_deletes, poll_errors, timed_out, notSm>>

\* main, lines 389-391: some dependency was not deleted, the profile is left alone
SmSkipProfile ==
    /\ prog = "sm" /\ pc = "sm_skip_profile"
    /\ pc' = "done"
    /\ UNCHANGED <<prog, dry_run, calls, scan_failed, smVars, notSm>>

\* SageMaker works on the deletions it accepted while the script waits: a
\* dependent being deleted ends up deleted, or its deletion fails
SmServerProgress ==
    /\ prog = "sm" /\ pc \in {"sm_wait_apps", "sm_wait_spaces"}
    /\ \/ \E a \in AppIds, end \in {"Deleted", "Failed"} :
             /\ app_status[a] = "Deleting"
             /\ app_status' = [app_status EXCEPT ![a] = end]
             /\ UNCHANGED space_status
       \/ \E s \in SpaceIds, end \in {"Deleted", "Delete_Failed"} :
             /\ space_status[s] = "Deleting"
             /\ space_status' = [space_status EXCEPT ![s] = end]
             /\ UNCHANGED app_status
    /\ UNCHANGED <<prog, pc, dry_run, calls, scan_failed, profile_status, space_owner,
                   user_profiles, apps, spaces, success_count, total_items, sm_idx,
                   elapsed_time, failed_deletes, poll_errors, timed_out, notSm>>

NextSm ==
    \/ SmListProfiles
    \/ SmSelect
    \/ SmConfirm
    \/ SmDeleteApp
    \/ SmAppsDeleted
    \/ SmPollApps
    \/ SmAppsTimeout
    \/ SmDeleteSpace
    \/ SmSpacesDeleted
    \/ SmPollSpaces
    \/ SmSpacesTimeout
    \/ SmDeleteProfile
    \/ SmSkipProfile
    \/ SmServerProgress

\* =====================================================================
\* archived/kms/kms_delete_unused_keys.py
\* =====================================================================
\* build_key_usage_map, lines 157-163
kms_usage_events == {"Encrypt", "Decrypt", "GenerateDataKey",
                     "GenerateDataKeyWithoutPlaintext", "ReEncrypt"}

\* The name of a resource in a CloudTrail event is the sequence of its
\* "/"-separated segments: a key ARN is <<ArnPrefix, key id>>, a bare key id <<key id>>.
\* ArnPrefix stands for "arn:aws:kms:<region>:<account>:key".
ArnPrefix == 0
ResourceNames == {<<k>> : k \in KeyIds} \cup {<<ArnPrefix, k>> : k \in KeyIds}

\* ages of the events of a log: less than a day, a day and a fraction, two days
EventAges == {TicksPerDay - 1, TicksPerDay + 1, 2 * TicksPerDay}
Events == [EventName : {"Decrypt", "DescribeKey"},
           EventTime : {Now - a : a \in EventAges},
           ResourceName : ResourceNames]
Logs == SeqsUpTo(Events, MaxEvents)

NoError == "none"
TrailErrors == {"TrailNotFoundException", "AccessDeniedException", "ThrottlingException"}

\* build_key_usage_map, line 201
KeyIdOf_NoSplit(resource_name) == resource_name[1]

KeyIdOf(resource_name) ==
    IF Len(resource_name) > 1 THEN resource_name[Len(resource_name)]
    ELSE resource_name[1]

\* build_key_usage_map, lines 182-205: the map after one more event
RecordEvent_LastWins(usage_map, event) ==
    IF event.EventName \notin kms_usage_events
    THEN usage_map
    ELSE (KeyIdOf(event.ResourceName) :> event.EventTime) @@ usage_map

RecordEvent(usage_map, event) ==
    IF event.EventName \notin kms_usage_events
    THEN usage_map
    ELSE LET key_id == KeyIdOf(event.ResourceName) IN
         IF key_id \notin DOMAIN usage_map \/ event.EventTime > usage_map[key_id]
         THEN (key_id :> event.EventTime) @@ usage_map
         ELSE usage_map

RECURSIVE RecordEvents(_, _, _)
\* the map after the first n events
RecordEvents(usage_map, events, n) ==
    IF n = 0 THEN usage_map
    ELSE RecordEvent(RecordEvents(usage_map, events, n - 1), events[n])

\* lookup_events with StartTime: CloudTrail returns the events of the window
InWindow(log, start_time) == SelectSeq(log, LAMBDA e : e.EventTime >= start_time)

\* build_key_usage_map: the events of the window come one per page; the request
\* after got pages raised error (NoError: every page was received).  When
\* CloudTrail is not accessible the map is {}, on another error it is what the
\* pages received gave.
build_key_usage_map_at(now, log, check_days, got, error) ==
    LET start_time == now - timedelta(check_days)
        events == InWindow(log, start_time)
    IN IF error \in {"TrailNotFoundException", "AccessDeniedException"}
       THEN <<>>
       ELSE RecordEvents(<<>>, events, got)

\* build_key_usage_map of a run whose datetime.now() is Now
build_key_usage_map(log, check_days, got, error) ==
    build_key_usage_map_at(Now, log, check_days, got, error)

\* what the log says: the resource name is the bare id of the key or the ARN of
\* the key, which ends in /id
NamesKey(resource_name, k) == resource_name = <<k>> \/ resource_name = <<ArnPrefix, k>>

\* what the log says: the time of the last usage event that names the key
LastUsage(log, key_id) ==
    LET times == {log[i].EventTime : i \in {j \in 1..Len(log) :
                      /\ log[j].EventName \in kms_usage_events
                      /\ NamesKey(log[j].ResourceName, key_id)}}
    IN IF times = {} THEN None ELSE CHOOSE t \in times : \A u \in times : u <= t

\* one scan of the log: its result and what the log held
Scan(log, check_days, got, error) ==
    [key_usage_map |-> build_key_usage_map(log, check_days, got, error),
     last_usage |-> [k \in KeyIds |-> LastUsage(log, k)],
     error |-> error]

CheckUsageDaysInputs == {1, 2}
UnusedDaysInputs == {1, 2}

\* every scan of every log, per --check-usage-days
Scans ==
    [check_days \in CheckUsageDaysInputs |->
        {Scan(log, check_days, got, error) :
            <<log, got, error>> \in
                {<<l, g, e>> \in Logs \X (0..MaxEvents) \X (TrailErrors \cup {NoError}) :
                    LET n == Len(InWindow(l, Now - timedelta(check_days)))
                    IN g <= n /\ Fetched(n, g, e # NoError)}}]

KeyMetadata == [KeyManager : {"AWS", "CUSTOMER"},
                KeyState : {"Enabled", "Disabled", "PendingDeletion"},
                CreationDate : {None, Now - (TicksPerDay + 1), Now - 2 * TicksPerDay},
                Created : {Now - (TicksPerDay + 1), Now - 2 * TicksPerDay}]

\* the keys of an account: an AWS-managed key is enabled, and the CreationDate of
\* the metadata, when it is there, is the day the key was created.  The dates
\* vary for the keys whose dates are looked at (customer keys not pending
\* deletion); the key whose metadata has no date is the younger one.
Accounts ==
    {m \in KeyMetadata :
        /\ m.KeyManager = "AWS" => m.KeyState = "Enabled"
        /\ m.CreationDate \in {None, m.Created}
        /\ m.CreationDate = None => m.Created = Now - (TicksPerDay + 1)
        /\ (m.KeyManager = "AWS" \/ m.KeyState = "PendingDeletion")
              => m.CreationDate = Now - 2 * TicksPerDay}

KmsIdle ==
    /\ unused_days = 0
    /\ check_usage_days = 0
    /\ state_filter = "all"
    /\ skip_usage_check = FALSE
    /\ no_confirm = FALSE
    /\ kms_keys = <<>>
    /\ key_usage_map = <<>>
    /\ last_usage = <<>>
    /\ trail_error = NoError
    /\ undescribed = {}
    /\ keys_info = <<>>
    /\ kms_idx = 0
    /\ kms_success_count = 0
    /\ failed_count = 0
    /\ exit_code = None

InitKms ==
    /\ prog = "kms"
    /\ pc = "kms_start"
    /\ dry_run \in BOOLEAN
    /\ calls = <<>>
    /\ scan_failed = FALSE
    /\ unused_days \in UnusedDaysInputs
    /\ check_usage_days \in CheckUsageDaysInputs
    /\ state_filter \in {"enabled", "disabled", "all"}
    /\ skip_usage_check \in BOOLEAN
    /\ no_confirm \in BOOLEAN
    /\ kms_keys \in [KeyIds -> Accounts]
    /\ key_usage_map = <<>>
    /\ last_usage = [k \in KeyIds |-> None]
    /\ trail_error = NoError
    /\ undescribed = {}
    /\ keys_info = <<>>
    /\ kms_idx = 0
    /\ kms_success_count = 0
    /\ failed_count = 0
    /\ exit_code = None

\* main, lines 392-399: the usage map is built from CloudTrail unless
\* --skip-usage-check is given
KmsBuildUsageMap ==
    /\ prog = "kms" /\ pc = "kms_start"
    /\ IF skip_usage_check
       THEN \* the trail is not read; what it holds is recorded all the same
            /\ \E scan \in Scans[check_usage_days] : last_usage' = scan.last_usage
            /\ UNCHANGED <<key_usage_map, trail_error>>
       ELSE \E scan \in Scans[check_usage_days] :
               /\ key_usage_map' = scan.key_usage_map
               /\ last_usage' = scan.last_usage
               /\ trail_error' = scan.error
    /\ pc' = "kms_list"
    /\ kms_idx' = 1
    /\ UNCHANGED <<prog, dry_run, calls, scan_failed, unused_days, check_usage_days,
                   state_filter, skip_usage_check, no_confirm, kms_keys, undescribed,
                   keys_info, kms_success_count, failed_count, exit_code, notKms>>

\* dict.get
Get(map, key) == IF key \in DOMAIN map THEN map[key] ELSE None

\* list_customer_managed_keys, lines 242-285: is the key appended to keys_info
KeyListed_Exclusive(metadata, last_used, filter, days_unused, skip) ==
    /\ metadata.KeyManager # "AWS"
    /\ ~(filter = "enabled" /\ metadata.KeyState # "Enabled")
    /\ ~(filter = "disabled" /\ metadata.KeyState # "Disabled")
    /\ metadata.KeyState # "PendingDeletion"
    /\ \/ skip
       \/ IF last_used # None
          THEN ~(days(Now - last_used) <= days_unused)
          ELSE metadata.CreationDate # None =>
                  ~(days(Now - metadata.CreationDate) < days_unused)

KeyListedAt_SkipIgnored(now, metadata, last_used, filter, days_unused, skip) ==
    /\ metadata.KeyManager # "AWS"
    /\ ~(filter = "enabled" /\ metadata.KeyState # "Enabled")
    /\ ~(filter = "disabled" /\ metadata.KeyState # "Disabled")
    /\ metadata.KeyState # "PendingDeletion"
    /\ IF last_used # None
       THEN ~(days(now - last_used) < days_unused)
       ELSE metadata.CreationDate # None =>
               ~(days(now - metadata.CreationDate) < days_unused)

KeyListedAt_PendingAllowed(now, metadata, last_used, filter, days_unused, skip) ==
    /\ metadata.KeyManager # "AWS"
    /\ ~(filter = "enabled" /\ metadata.KeyState # "Enabled")
    /\ ~(filter = "disabled" /\ metadata.KeyState # "Disabled")
    /\ \/ skip
       \/ IF last_used # None
          THEN ~(days(now - last_used) < days_unused)
          ELSE metadata.CreationDate # None =>
                  ~(days(now - metadata.CreationDate) < days_unused)

KeyListedAt(now, metadata, last_used, filter, days_unused, skip) ==
    /\ metadata.KeyManager # "AWS"
    /\ ~(filter = "enabled" /\ metadata.KeyState # "Enabled")
    /\ ~(filter = "disabled" /\ metadata.KeyState # "Disabled")
    /\ metadata.KeyState # "PendingDeletion"
    /\ \/ skip
       \/ IF last_used # None
          THEN ~(days(now - last_used) < days_unused)
          ELSE metadata.CreationDate # None =>
                  ~(days(now - metadata.CreationDate) < days_unused)

\* the same in a run whose datetime.now() is Now
KeyListed(metadata, last_used, filter, days_unused, skip) ==
    KeyListedAt(Now, metadata, last_used, filter, days_unused, skip)

\* list_customer_managed_keys, lines 265-285: days_since_last_use of a listed key
DaysSinceLastUseAt(now, metadata, last_used, skip) ==
    IF skip THEN None
    ELSE IF last_used # None THEN days(now - last_used)
    ELSE IF metadata.CreationDate # None THEN days(now - metadata.CreationDate)
    ELSE None

DaysSinceLastUse(metadata, last_used, skip) ==
    DaysSinceLastUseAt(Now, metadata, last_used, skip)

\* list_customer_managed_keys: one iteration of the loop over the keys, lines
\* 232-309; a key whose describe_key raises ClientError is passed over
KmsListKey ==
    /\ prog = "kms" /\ pc = "kms_list"
    /\ kms_idx <= NumKeys
    /\ LET key_id == kms_idx
           key_metadata == kms_keys[key_id]
           last_used == IF skip_usage_check THEN None ELSE Get(key_usage_map, key_id)
       IN \E described \in BOOLEAN :
             /\ undescribed' = IF described THEN undescribed ELSE undescribed \cup {key_id}
             /\ keys_info' =
                  IF described /\ KeyListed(key_metadata, last_used, state_filter,
                                            unused_days, skip_usage_check)
                  THEN Append(keys_info,
                          [KeyId |-> key_id,
                           State |-> key_metadata.KeyState,
                           CreationDate |-> key_metadata.CreationDate,
                           LastUsed |-> last_used,
                           DaysSinceLastUse |-> DaysSinceLastUse(key_metadata, last_used,
                                                                 skip_usage_check)])
                  ELSE keys_info
    /\ kms_idx' = kms_idx + 1
    /\ UNCHANGED <<prog, pc, dry_run, calls, scan_failed, unused_days, check_usage_days,
                   state_filter, skip_usage_check, no_confirm, kms_keys, key_usage_map,
                   last_usage, trail_error, kms_success_count, failed_count, exit_code,
                   notKms>>

\* list_customer_managed_keys, lines 313-315: list_keys raised ClientError
KmsListKeysFails ==
    /\ prog = "kms" /\ pc = "kms_list"
    /\ kms_idx <= NumKeys
    /\ pc' = "exited"
    /\ exit_code' = 1
    /\ UNCHANGED <<prog, dry_run, calls, scan_failed, unused_days, check_usage_days,
                   state_filter, skip_usage_check, no_confirm, kms_keys, key_usage_map,
                   last_usage, trail_error, undescribed, keys_info, kms_idx, kms_success_count,
                   failed_count, notKms>>

\* confirm_deletion: with --no-confirm True without a prompt, else
\* input(...).strip().lower() == "yes"
confirm_deletion_AnyAnswer(skip_confirm, response) == TRUE

confirm_deletion(skip_confirm, response) ==
    skip_confirm \/ lower(strip(response)) = yes

\* confirm_deletion: what input() returned, if it was called
Typed(skip_confirm, response) == IF skip_confirm THEN NotAsked ELSE response

\* display_keys: the key ids of the entries of the table it prints, one entry per
\* element of keys_info
display_keys(info) == [i \in 1..Len(info) |-> info[i].KeyId]

\* main, lines 411-422: display, then nothing to do, cancelled or confirmed
KmsConfirm ==
    /\ prog = "kms" /\ pc = "kms_list"
    /\ kms_idx > NumKeys
    /\ IF keys_info = <<>>
       THEN pc' = "done" /\ exit_code' = 0 /\ UNCHANGED typed
       ELSE \E response \in Answers :
               /\ typed' = Typed(no_confirm, response)
               /\ IF confirm_deletion(no_confirm, response)
                  THEN pc' = "kms_schedule" /\ UNCHANGED exit_code
                  ELSE pc' = "done" /\ exit_code' = 0
    /\ kms_idx' = 1
    /\ UNCHANGED <<prog, dry_run, calls, scan_failed, unused_days, check_usage_days,
                   state_filter, skip_usage_check, no_confirm, kms_keys, key_usage_map,
                   last_usage, trail_error, undescribed, keys_info, kms_success_count, failed_count,
                   notKmsPrompt>>

\* schedule_key_deletion, lines 367-368: with dry_run nothing is called
CallsKms_IgnoreDryRun(dry) == TRUE

CallsKms(dry) == ~dry

\* schedule_key_deletion, called by the loop of main, lines 427-440
KmsSchedule ==
    /\ prog = "kms" /\ pc = "kms_schedule"
    /\ kms_idx <= Len(keys_info)
    /\ LET key_id == keys_info[kms_idx].KeyId IN
       IF ~CallsKms(dry_run)
       THEN /\ kms_success_count' = kms_success_count + 1
            /\ UNCHANGED <<calls, kms_keys, failed_count>>
       ELSE /\ calls' = Append(calls, Call("schedule_key_deletion", key_id, FALSE))
            /\ \E answer \in {"ok", "ClientError"} :
                  IF answer = "ok"
                  THEN /\ kms_keys' = [kms_keys EXCEPT ![key_id].KeyState = "PendingDeletion"]
                       /\ kms_success_count' = kms_success_count + 1
                       /\ UNCHANGED failed_count
                  ELSE /\ failed_count' = failed_count + 1
                       /\ UNCHANGED <<kms_keys, kms_success_count>>
    /\ kms_idx' = kms_idx + 1
    /\ UNCHANGED <<prog, pc, dry_run, scan_failed, unused_days, check_usage_days,
                   state_filter, skip_usage_check, no_confirm, key_usage_map, last_usage,
                   trail_error, undescribed, keys_info, exit_code, notKms>>

\* main, line 452: the value main returns after the loop
ExitCode(failed) == IF failed = 0 THEN 0 ELSE 1

\* main, lines 442-452: summary and exit code
KmsSummary ==
    /\ prog = "kms" /\ pc = "kms_schedule"
    /\ kms_idx > Len(keys_info)
    /\ exit_code' = ExitCode(failed_count)
    /\ pc' = "done"
    /\ UNCHANGED <<prog, dry_run, calls, scan_failed, unused_days, check_usage_days,
                   state_filter, skip_usage_check, no_confirm, kms_keys, key_usage_map,
                   last_usage, trail_error, undescribed, keys_info, kms_idx, kms_success_count,
                   failed_count, notKms>>

NextKms ==
    \/ KmsBuildUsageMap
    \/ KmsListKey
    \/ KmsListKeysFails
    \/ KmsConfirm
    \/ KmsSchedule
    \/ KmsSummary

\* ---------------------------------------------------------------------
\* kms_delete_unused_keys.py --dry-run --no-confirm, run twice in a row on the
\* same account and the same trail, the second run later on the same day
\* ---------------------------------------------------------------------
RerunIdle ==
    /\ run_no = 0
    /\ clock = 0
    /\ first_listed = {}
    /\ faulty = FALSE

InitRerun ==
    /\ prog = "rerun"
    /\ pc = "rerun_start"
    /\ dry_run = TRUE
    /\ calls = <<>>
    /\ scan_failed = FALSE
    /\ run_no = 1
    /\ clock = 0
    /\ first_listed = {}
    /\ faulty = FALSE
    /\ trail \in Logs
    /\ page_size = 0
    /\ scan_idx = 0
    /\ unused_days \in UnusedDaysInputs
    /\ check_usage_days \in CheckUsageDaysInputs
    /\ state_filter = "all"
    /\ skip_usage_check = FALSE
    /\ no_confirm = TRUE
    /\ kms_keys \in [KeyIds -> Accounts]
    /\ key_usage_map = <<>>
    /\ last_usage = <<>>
    /\ trail_error = NoError
    /\ undescribed = {}
    /\ keys_info = <<>>
    /\ kms_idx = 0
    /\ kms_success_count = 0
    /\ failed_count = 0
    /\ exit_code = None

\* datetime.now(timezone.utc) of the run that is going on
RunNow == Now + clock

\* the key ids of keys_info
ListedIds(info) == {info[i].KeyId : i \in 1..Len(info)}

\* main, lines 392-399: build_key_usage_map over the trail
RerunBuildUsageMap ==
    /\ prog = "rerun" /\ pc = "rerun_start"
    /\ \E error \in TrailErrors \cup {NoError}, got \in 0..MaxEvents :
          LET n == Len(InWindow(trail, RunNow - timedelta(check_usage_days))) IN
          /\ got <= n
          /\ Fetched(n, got, error # NoError)
          /\ key_usage_map' = build_key_usage_map_at(RunNow, trail, check_usage_days,
                                                      got, error)
          /\ faulty' = (faulty \/ error # NoError)
    /\ pc' = "rerun_list"
    /\ kms_idx' = 1
    /\ UNCHANGED <<prog, dry_run, calls, scan_failed, unused_days, check_usage_days,
                   state_filter, skip_usage_check, no_confirm, kms_keys, last_usage,
                   trail_error, undescribed, keys_info, kms_success_count, failed_count,
                   exit_code, trail, run_no, clock, first_listed, notRerun>>

\* list_customer_managed_keys: one iteration of the loop over the keys, lines
\* 232-309
RerunListKey ==
    /\ prog = "rerun" /\ pc = "rerun_list"
    /\ kms_idx <= NumKeys
    /\ LET key_id == kms_idx
           key_metadata == kms_keys[key_id]
           last_used == Get(key_usage_map, key_id)
       IN \E described \in BOOLEAN :
             /\ faulty' = (faulty \/ ~described)
             /\ keys_info' =
                  IF described /\ KeyListedAt(RunNow, key_metadata, last_used, state_filter,
                                              unused_days, skip_usage_check)
                  THEN Append(keys_info,
                          [KeyId |-> key_id,
                           State |-> key_metadata.KeyState,
                           CreationDate |-> key_metadata.CreationDate,
                           LastUsed |-> last_used,
                           DaysSinceLastUse |->
                               DaysSinceLastUseAt(RunNow, key_metadata, last_used,
                                                  skip_usage_check)])
                  ELSE keys_info
    /\ kms_idx' = kms_idx + 1
    /\ UNCHANGED <<prog, pc, dry_run, calls, scan_failed, unused_days, check_usage_days,
                   state_filter, skip_usage_check, no_confirm, kms_keys, key_usage_map,
                   last_usage, trail_error, undescribed, kms_success_count, failed_count,
                   exit_code, trail, run_no, clock, first_listed, notRerun>>

\* list_customer_managed_keys, lines 313-315: list_keys raised ClientError
RerunListKeysFails ==
    /\ prog = "rerun" /\ pc = "rerun_list"
    /\ kms_idx <= NumKeys
    /\ pc' = "exited"
    /\ exit_code' = 1
    /\ faulty' = TRUE
    /\ UNCHANGED <<prog, dry_run, calls, scan_failed, unused_days, check_usage_days,
                   state_filter, skip_usage_check, no_confirm, kms_keys, key_usage_map,
                   last_usage, trail_error, undescribed, keys_info, kms_idx,
                   kms_success_count, failed_count, trail, run_no, clock, first_listed,
                   notRerun>>

\* main, lines 401-452 with --dry-run: the keys are displayed, schedule_key_deletion
\* returns before it calls KMS, main returns 0; the tool is then started again,
\* at a later time of the same day
RerunAgain ==
    /\ prog = "rerun" /\ pc = "rerun_list"
    /\ kms_idx > NumKeys
    /\ run_no = 1
    /\ first_listed' = ListedIds(keys_info)
    /\ run_no' = 2
    /\ \E later \in 0..(TicksPerDay - 1) : clock' = later
    /\ key_usage_map' = <<>>
    /\ keys_info' = <<>>
    /\ kms_idx' = 0
    /\ pc' = "rerun_start"
    /\ UNCHANGED <<prog, dry_run, calls, scan_failed, unused_days, check_usage_days,
                   state_filter, skip_usage_check, no_confirm, kms_keys, last_usage,
                   trail_error, undescribed, kms_success_count, failed_count, exit_code,
                   trail, faulty, notRerun>>

\* main, lines 401-452 with --dry-run, second run
RerunDone ==
    /\ prog = "rerun" /\ pc = "rerun_list"
    /\ kms_idx > NumKeys
    /\ run_no = 2
    /\ exit_code' = ExitCode(failed_count)
    /\ pc' = "done"
    /\ UNCHANGED <<prog, dry_run, calls, scan_failed, unused_days, check_usage_days,
                   state_filter, skip_usage_check, no_confirm, kms_keys, key_usage_map,
                   last_usage, trail_error, undescribed, keys_info, kms_idx,
                   kms_success_count, failed_count, trail, rerunVars, notRerun>>

NextRerun ==
    \/ RerunBuildUsageMap
    \/ RerunListKey
    \/ RerunListKeysFails
    \/ RerunAgain
    \/ RerunDone

\* =====================================================================
\* organizations/org_generate_mermaid_diagram.py and
\* organizations/org_get_account_details.py
\* =====================================================================
NumOus == 2
OuIds == 1..NumOus
RootId == 0
\* the frames the interpreter allows before it raises RecursionError
RecursionLimit == 3
\* the names of path_parts the model keeps (the list itself has no bound)
MaxPath == 3

OrgIdle ==
    /\ ou_children = <<>>
    /\ ou_parent = <<>>
    /\ account_parent = None
    /\ stack = <<>>
    /\ ous_seen = {}
    /\ current_id = None
    /\ path_parts = <<>>

\* one call of get_organizational_units: its parent_id and the OUs of its pages
\* that it has not handled yet
Frame(parent_id) == [parent_id |-> parent_id, todo |-> SetToSeq(ou_children[parent_id])]

\* main of org_generate_mermaid_diagram.py, lines 345-354: the first call, with
\* the id of the root
InitOus ==
    /\ prog = "ous"
    /\ pc = "ous_walk"
    /\ dry_run = FALSE
    /\ calls = <<>>
    /\ scan_failed = FALSE
    /\ ou_children \in [OuIds \cup {RootId} -> SUBSET OuIds]
    /\ ou_parent = <<>>
    /\ account_parent = None
    /\ stack = <<Frame(RootId)>>
    /\ ous_seen = {}
    /\ current_id = None
    /\ path_parts = <<>>

\* get_organizational_units, lines 65-70: the next OU of the page; the function
\* calls itself with the id of the OU.  The interpreter raises RecursionError when
\* the calls nest too deep; main catches it and exits, lines 375-377.
OusDescend ==
    /\ prog = "ous" /\ pc = "ous_walk"
    /\ stack # <<>>
    /\ stack[Len(stack)].todo # <<>>
    /\ LET ou == Head(stack[Len(stack)].todo) IN
       IF Len(stack) < RecursionLimit
       THEN /\ stack' = Append(stack, Frame(ou))
            /\ UNCHANGED pc
       ELSE /\ pc' = "exited"
            /\ UNCHANGED stack
    /\ UNCHANGED <<prog, dry_run, calls, scan_failed, ou_children, ou_parent,
                   account_parent, ous_seen, current_id, path_parts, notOrg>>

\* get_organizational_units, lines 70-77: the call for the OU has returned, the OU
\* is appended; after the last OU the function returns
OusReturn ==
    /\ prog = "ous" /\ pc = "ous_walk"
    /\ stack # <<>>
    /\ stack[Len(stack)].todo = <<>>
    /\ IF Len(stack) = 1
       THEN /\ pc' = "done"
            /\ stack' = <<>>
            /\ UNCHANGED ous_seen
       ELSE LET caller == stack[Len(stack) - 1] IN
            /\ stack' = [SubSeq(stack, 1, Len(stack) - 1)
                            EXCEPT ![Len(stack) - 1].todo = Tail(caller.todo)]
            /\ ous_seen' = ous_seen \cup {Head(caller.todo)}
            /\ UNCHANGED pc
    /\ UNCHANGED <<prog, dry_run, calls, scan_failed, ou_children, ou_parent,
                   account_parent, current_id, path_parts, notOrg>>

\* get_organizational_units: a page request raises ClientError, which nothing
\* catches before main does, lines 375-377
OusFails ==
    /\ prog = "ous" /\ pc = "ous_walk"
    /\ pc' = "exited"
    /\ UNCHANGED <<prog, dry_run, calls, scan_failed, orgVars, notOrg>>

NextOus ==
    \/ OusDescend
    \/ OusReturn
    \/ OusFails

\* what list_parents gives for a child: no parent, the root or an OU
NoParent == None

\* main of org_get_account_details.py, line 184: get_parent_ou_path is called
InitPath ==
    /\ prog = "path"
    /\ pc = "path_start"
    /\ dry_run = FALSE
    /\ calls = <<>>
    /\ scan_failed = FALSE
    /\ ou_children = <<>>
    /\ ou_parent \in [OuIds -> OuIds \cup {RootId, NoParent}]
    /\ account_parent \in OuIds \cup {RootId, NoParent}
    /\ stack = <<>>
    /\ ous_seen = {}
    /\ current_id = None
    /\ path_parts = <<>>

\* path_parts.insert(0, name), in the model up to MaxPath names
Insert(parts, name) == IF Len(parts) < MaxPath THEN <<name>> \o parts ELSE parts

\* get_parent_ou_path, lines 52-70 and 102-103: the parent of the account; a
\* ClientError gives "Unknown", no parent or the root give the path at once
PathStart ==
    /\ prog = "path" /\ pc = "path_start"
    /\ \E raised \in BOOLEAN :
          IF raised \/ account_parent \in {NoParent, RootId}
          THEN pc' = "done" /\ UNCHANGED current_id
          ELSE pc' = "path_walk" /\ current_id' = account_parent
    /\ UNCHANGED <<prog, dry_run, calls, scan_failed, ou_children, ou_parent,
                   account_parent, stack, ous_seen, path_parts, notOrg>>

\* get_parent_ou_path, lines 72-98: one turn of the while True loop.  The loop is
\* left when the OU has no parent, when its parent is the root, or when a call
\* raises ClientError (describe_organizational_unit before the name is inserted,
\* list_parents and list_roots after it).
PathStep ==
    /\ prog = "path" /\ pc = "path_walk"
    /\ \E raised \in {"none", "describe_organizational_unit", "list_parents"} :
          IF raised = "describe_organizational_unit"
          THEN pc' = "done" /\ UNCHANGED <<current_id, path_parts>>
          ELSE LET named == Insert(path_parts, current_id) IN
               IF raised = "list_parents" \/ ou_parent[current_id] = NoParent
               THEN /\ pc' = "done"
                    /\ path_parts' = named
                    /\ UNCHANGED current_id
               ELSE IF ou_parent[current_id] = RootId
               THEN /\ pc' = "done"
                    /\ path_parts' = Insert(named, RootId)
                    /\ UNCHANGED current_id
               ELSE /\ current_id' = ou_parent[current_id]
                    /\ path_parts' = named
                    /\ UNCHANGED pc
    /\ UNCHANGED <<prog, dry_run, calls, scan_failed, ou_children, ou_parent,
                   account_parent, stack, ous_seen, notOrg>>

NextPath ==
    \/ PathStart
    \/ PathStep

\* =====================================================================
\* archived/kms/kms_delete_keys_by_tag.py
\* =====================================================================
NoTag == ""
TagValues == {"legacy", "prod"}

TagIdle ==
    /\ tag_value = NoTag
    /\ key_tags = <<>>
    /\ exclude_key_ids = {}

InitTag ==
    /\ prog = "tag"
    /\ pc = "tag_list"
    /\ dry_run \in BOOLEAN
    /\ calls = <<>>
    /\ scan_failed = FALSE
    /\ tag_value \in TagValues
    /\ key_tags \in [KeyIds -> TagValues \cup {NoTag}]
    /\ exclude_key_ids \in SUBSET KeyIds
    /\ unused_days = 0
    /\ check_usage_days = 0
    /\ state_filter = "all"
    /\ skip_usage_check = FALSE
    /\ no_confirm \in BOOLEAN
    /\ kms_keys \in [KeyIds -> {m \in Accounts : m.CreationDate = m.Created}]
    /\ key_usage_map = <<>>
    /\ last_usage = <<>>
    /\ trail_error = NoError
    /\ undescribed = {}
    /\ keys_info = <<>>
    /\ kms_idx = 1
    /\ kms_success_count = 0
    /\ failed_count = 0
    /\ exit_code = None

\* get_key_tags: the value of the tag, nothing when list_resource_tags raised
\* ClientError
get_key_tags(key_id, got) == IF got THEN key_tags[key_id] ELSE NoTag

\* list_keys_by_tag, lines 153-179: is the key appended to keys_info
TagListed_NoExclude(key_id, metadata, tag, wanted, excluded) ==
    /\ metadata.KeyManager # "AWS"
    /\ metadata.KeyState # "PendingDeletion"
    /\ tag = wanted

TagListed(key_id, metadata, tag, wanted, excluded) ==
    /\ key_id \notin excluded
    /\ metadata.KeyManager # "AWS"
    /\ metadata.KeyState # "PendingDeletion"
    /\ tag = wanted

\* list_keys_by_tag: one iteration of the loop over the keys, lines 150-205; an
\* excluded key is passed over before describe_key is called, a key whose
\* describe_key raises ClientError is passed over
TagListKey ==
    /\ prog = "tag" /\ pc = "tag_list"
    /\ kms_idx <= NumKeys
    /\ LET key_id == kms_idx
           key_metadata == kms_keys[key_id]
       IN \E described \in BOOLEAN, got \in BOOLEAN :
             LET tags == get_key_tags(key_id, got) IN
             /\ undescribed' = IF described \/ key_id \in exclude_key_ids
                               THEN undescribed ELSE undescribed \cup {key_id}
             /\ keys_info' =
                  IF described /\ TagListed(key_id, key_metadata, tags, tag_value,
                                            exclude_key_ids)
                  THEN Append(keys_info,
                          [KeyId |-> key_id,
                           State |-> key_metadata.KeyState,
                           CreationDate |-> key_metadata.CreationDate,
                           Tags |-> tags])
                  ELSE keys_info
    /\ kms_idx' = kms_idx + 1
    /\ UNCHANGED <<prog, pc, dry_run, calls, scan_failed, unused_days, check_usage_days,
                   state_filter, skip_usage_check, no_confirm, kms_keys, key_usage_map,
                   last_usage, trail_error, kms_success_count, failed_count, exit_code,
                   tagVars, notTag>>

\* list_keys_by_tag, lines 209-211: list_keys raised ClientError, sys.exit(1)
TagListKeysFails ==
    /\ prog = "tag" /\ pc = "tag_list"
    /\ kms_idx <= NumKeys
    /\ pc' = "exited"
    /\ exit_code' = 1
    /\ UNCHANGED <<prog, dry_run, calls, scan_failed, unused_days, check_usage_days,
                   state_filter, skip_usage_check, no_confirm, kms_keys, key_usage_map,
                   last_usage, trail_error, undescribed, keys_info, kms_idx,
                   kms_success_count, failed_count, tagVars, notTag>>

\* main, lines 290-302: display, then nothing to do, cancelled or confirmed
TagConfirm ==
    /\ prog = "tag" /\ pc = "tag_list"
    /\ kms_idx > NumKeys
    /\ IF keys_info = <<>>
       THEN pc' = "done" /\ exit_code' = 0 /\ UNCHANGED typed
       ELSE \E response \in Answers :
               /\ typed' = Typed(no_confirm, response)
               /\ IF confirm_deletion(no_confirm, response)
                  THEN pc' = "tag_schedule" /\ UNCHANGED exit_code
                  ELSE pc' = "done" /\ exit_code' = 0
    /\ kms_idx' = 1
    /\ UNCHANGED <<prog, dry_run, calls, scan_failed, unused_days, check_usage_days,
                   state_filter, skip_usage_check, no_confirm, kms_keys, key_usage_map,
                   last_usage, trail_error, undescribed, keys_info, kms_success_count,
                   failed_count, tagVars, notTagPrompt>>

\* schedule_key_deletion, called by the loop of main, lines 307-320
TagSchedule ==
    /\ prog = "tag" /\ pc = "tag_schedule"
    /\ kms_idx <= Len(keys_info)
    /\ LET key_id == keys_info[kms_idx].KeyId IN
       IF ~CallsKms(dry_run)
       THEN /\ kms_success_count' = kms_success_count + 1
            /\ UNCHANGED <<calls, kms_keys, failed_count>>
       ELSE /\ calls' = Append(calls, Call("schedule_key_deletion", key_id, FALSE))
            /\ \E answer \in {"ok", "ClientError"} :
                  IF answer = "ok"
                  THEN /\ kms_keys' = [kms_keys EXCEPT ![key_id].KeyState = "PendingDeletion"]
                       /\ kms_success_count' = kms_success_count + 1
                       /\ UNCHANGED failed_count
                  ELSE /\ failed_count' = failed_count + 1
                       /\ UNCHANGED <<kms_keys, kms_success_count>>
    /\ kms_idx' = kms_idx + 1
    /\ UNCHANGED <<prog, pc, dry_run, scan_failed, unused_days, check_usage_days,
                   state_filter, skip_usage_check, no_confirm, key_usage_map, last_usage,
                   trail_error, undescribed, keys_info, exit_code, tagVars, notTag>>

\* main, lines 322-332: summary and exit code
TagSummary ==
    /\ prog = "tag" /\ pc = "tag_schedule"
    /\ kms_idx > Len(keys_info)
    /\ exit_code' = ExitCode(failed_count)
    /\ pc' = "done"
    /\ UNCHANGED <<prog, dry_run, calls, scan_failed, unused_days, check_usage_days,
                   state_filter, skip_usage_check, no_confirm, kms_keys, key_usage_map,
                   last_usage, trail_error, undescribed, keys_info, kms_idx,
                   kms_success_count, failed_count, tagVars, notTag>>

NextTag ==
    \/ TagListKey
    \/ TagListKeysFails
    \/ TagConfirm
    \/ TagSchedule
    \/ TagSummary

\* ---------------------------------------------------------------------
\* build_key_usage_map run on its own, page by page
\* ---------------------------------------------------------------------
ScanIdle ==
    /\ trail = <<>>
    /\ page_size = 0
    /\ scan_idx = 0

InitScan ==
    /\ prog = "scan"
    /\ pc = "scan_page"
    /\ dry_run = FALSE
    /\ calls = <<>>
    /\ scan_failed = FALSE
    /\ trail \in Logs
    /\ page_size \in 1..MaxEvents
    /\ scan_idx = 0
    /\ unused_days = 0
    /\ check_usage_days \in CheckUsageDaysInputs
    /\ state_filter = "all"
    /\ skip_usage_check = FALSE
    /\ no_confirm = FALSE
    /\ kms_keys = <<>>
    /\ key_usage_map = <<>>
    /\ last_usage = <<>>
    /\ trail_error = NoError
    /\ undescribed = {}
    /\ keys_info = <<>>
    /\ kms_idx = 0
    /\ kms_success_count = 0
    /\ failed_count = 0
    /\ exit_code = None

\* the events lookup_events returns for the window of the scan
ScannedEvents == InWindow(trail, Now - timedelta(check_usage_days))

\* build_key_usage_map, lines 174-205: one page is received and its events are
\* recorded; the page that holds the last event is the last page
ScanPage ==
    /\ prog = "scan" /\ pc = "scan_page"
    /\ LET events == ScannedEvents
           n == IF scan_idx + page_size < Len(events) THEN scan_idx + page_size
                ELSE Len(events)
           page == SubSeq(events, scan_idx + 1, n)
       IN /\ key_usage_map' = RecordEvents(key_usage_map, page, Len(page))
          /\ scan_idx' = n
          /\ pc' = IF n = Len(events) THEN "done" ELSE "scan_page"
    /\ UNCHANGED <<prog, dry_run, calls, scan_failed, unused_days, check_usage_days,
                   state_filter, skip_usage_check, no_confirm, kms_keys, last_usage,
                   trail_error, undescribed, keys_info, kms_idx, kms_success_count,
                   failed_count, exit_code, trail, page_size, notScan>>

\* build_key_usage_map, lines 209-217: the request of a page raises ClientError
ScanFails ==
    /\ prog = "scan" /\ pc = "scan_page"
    /\ \E error \in TrailErrors :
          /\ trail_error' = error
          /\ key_usage_map' =
                IF error \in {"TrailNotFoundException", "AccessDeniedException"}
                THEN <<>>
                ELSE key_usage_map
    /\ pc' = "done"
    /\ UNCHANGED <<prog, dry_run, calls, scan_failed, unused_days, check_usage_days,
                   state_filter, skip_usage_check, no_confirm, kms_keys, last_usage,
                   undescribed, keys_info, kms_idx, kms_success_count, failed_count,
                   exit_code, scanVars, notScan>>

NextScan ==
    \/ ScanPage
    \/ ScanFails

\* =====================================================================
\* sagemaker/sm_cleanup_spaces.py

NumDomainSpaces == 2
DomainSpaceIds == 1..NumDomainSpaces

SpacesIdle ==
    /\ domain_spaces = <<>>
    /\ listed_spaces = <<>>
    /\ selected_spaces = <<>>
    /\ space_idx = 0
    /\ deleted_count = 0
    /\ found = <<>>

InitSpaces ==
    /\ prog = "spaces"
    /\ pc = "sc_list"
    /\ dry_run = FALSE
    /\ calls = <<>>
    /\ scan_failed = FALSE
    /\ domain_spaces \in [DomainSpaceIds -> {"InService", "Failed", "Deleting", "Delete_Failed"}]
    /\ listed_spaces = <<>>
    /\ selected_spaces = <<>>
    /\ space_idx = 0
    /\ deleted_count = 0
    /\ found = <<>>

\* list_all_active_spaces, line 116: a space that is being deleted, or whose
\* deletion failed, is not included
SpaceListed_Any(space_status_) == TRUE

SpaceListed(space_status_) == space_status_ \notin {"Deleting", "Delete_Failed"}

\* list_all_active_spaces: the spaces list_spaces gives, in order, less the ones
\* line 116 leaves out; [] when list_domains or list_spaces raised ClientError
list_all_active_spaces(listed) ==
    IF listed
    THEN SelectSeq(SetToSeq(DomainSpaceIds), LAMBDA s : SpaceListed(domain_spaces[s]))
    ELSE <<>>

\* main, lines 209-213
SpacesList ==
    /\ prog = "spaces" /\ pc = "sc_list"
    /\ \E listed \in BOOLEAN :
          /\ listed_spaces' = list_all_active_spaces(listed)
          /\ found' = IF listed THEN domain_spaces ELSE <<>>
    /\ pc' = IF listed_spaces' = <<>> THEN "done" ELSE "sc_select"
    /\ UNCHANGED <<prog, dry_run, calls, scan_failed, domain_spaces, selected_spaces,
                   space_idx, deleted_count, notSpaces>>

\* interactive_space_selection: the listed spaces whose box was ticked, in the
\* order of the listing; [] when none was ticked or the prompt was interrupted
interactive_space_selection(spaces_, ticked) ==
    SelectSeq(spaces_, LAMBDA s : s \in ticked)

\* main, lines 216-220
SpacesSelect ==
    /\ prog = "spaces" /\ pc = "sc_select"
    /\ \E ticked \in SUBSET Range(listed_spaces) :
          selected_spaces' = interactive_space_selection(listed_spaces, ticked)
    /\ pc' = IF selected_spaces' = <<>> THEN "done" ELSE "sc_confirm"
    /\ UNCHANGED <<prog, dry_run, calls, scan_failed, domain_spaces, listed_spaces,
                   space_idx, deleted_count, found, notSpaces>>

\* confirm_deletion of sm_cleanup_spaces.py, lines 192-193
confirm_space_deletion(confirmation) == lower(confirmation) = yes

\* main, lines 223-229
SpacesConfirm ==
    /\ prog = "spaces" /\ pc = "sc_confirm"
    /\ \E confirmation \in Answers :
          /\ typed' = confirmation
          /\ pc' = IF confirm_space_deletion(confirmation) THEN "sc_delete" ELSE "done"
    /\ space_idx' = 1
    /\ deleted_count' = 0
    /\ UNCHANGED <<prog, dry_run, calls, scan_failed, domain_spaces, listed_spaces,
                   selected_spaces, found, notSpacesPrompt>>

\* main, lines 231-233, and delete_space: one selected space
SpacesDelete ==
    /\ prog = "spaces" /\ pc = "sc_delete"
    /\ space_idx <= Len(selected_spaces)
    /\ LET space == selected_spaces[space_idx] IN
          /\ calls' = Append(calls, Call("delete_space", space, FALSE))
          /\ \E answer \in {"ok", "ClientError"} :
                /\ domain_spaces' = IF answer = "ok"
                                    THEN [domain_spaces EXCEPT ![space] = "Deleting"]
                                    ELSE domain_spaces
                /\ deleted_count' = IF answer = "ok" THEN deleted_count + 1
                                    ELSE deleted_count
    /\ space_idx' = space_idx + 1
    /\ UNCHANGED <<prog, pc, dry_run, scan_failed, listed_spaces, selected_spaces,
                   found, notSpaces>>

\* main, lines 235-241
SpacesSummary ==
    /\ prog = "spaces" /\ pc = "sc_delete"
    /\ space_idx > Len(selected_spaces)
    /\ pc' = "done"
    /\ UNCHANGED <<prog, dry_run, calls, scan_failed, spaceVars, notSpaces>>

NextSpaces ==
    \/ SpacesList
    \/ SpacesSelect
    \/ SpacesConfirm
    \/ SpacesDelete
    \/ SpacesSummary

\* =====================================================================
\* One run of one script.
RunAmi == InitAmi /\ SgIdle /\ SmIdle /\ KmsIdle /\ ScanIdle /\ TagIdle /\ RerunIdle /\ Unasked /\ OrgIdle
    /\ SpacesIdle

RunSg == InitSg /\ AmiIdle /\ SmIdle /\ KmsIdle /\ ScanIdle /\ TagIdle /\ RerunIdle /\ Unasked /\ OrgIdle
    /\ SpacesIdle

RunSm == InitSm /\ AmiIdle /\ SgIdle /\ KmsIdle /\ ScanIdle /\ TagIdle /\ RerunIdle /\ Unasked /\ OrgIdle
    /\ SpacesIdle

RunKms == InitKms /\ AmiIdle /\ SgIdle /\ SmIdle /\ ScanIdle /\ TagIdle /\ RerunIdle /\ Unasked /\ OrgIdle
    /\ SpacesIdle

RunScan == InitScan /\ AmiIdle /\ SgIdle /\ SmIdle /\ TagIdle /\ RerunIdle /\ Unasked /\ OrgIdle
    /\ SpacesIdle

RunTag == InitTag /\ AmiIdle /\ SgIdle /\ SmIdle /\ ScanIdle /\ RerunIdle /\ Unasked /\ OrgIdle
    /\ SpacesIdle

RunRerun == InitRerun /\ AmiIdle /\ SgIdle /\ SmIdle /\ TagIdle /\ Unasked /\ OrgIdle
    /\ SpacesIdle

RunOus == InitOus /\ AmiIdle /\ SgIdle /\ SmIdle /\ KmsIdle /\ ScanIdle /\ TagIdle /\ RerunIdle /\ Unasked
    /\ SpacesIdle

RunPath == InitPath /\ AmiIdle /\ SgIdle /\ SmIdle /\ KmsIdle /\ ScanIdle /\ TagIdle /\ RerunIdle /\ Unasked
    /\ SpacesIdle

RunSpaces == InitSpaces /\ AmiIdle /\ SgIdle /\ SmIdle /\ KmsIdle /\ ScanIdle /\ TagIdle /\ RerunIdle /\ Unasked
    /\ OrgIdle

Init ==
    \/ RunAmi
    \/ RunSg
    \/ RunSm
    \/ RunKms
    \/ RunScan
    \/ RunTag
    \/ RunRerun
    \/ RunOus
    \/ RunPath
    \/ RunSpaces

Next ==
    \/ NextAmi
    \/ NextSg
    \/ NextSm
    \/ NextKms
    \/ NextScan
    \/ NextTag
    \/ NextRerun
    \/ NextOus
    \/ NextPath
    \/ NextSpaces

Spec == Init /\ [][Next]_vars

\* One script at a time.
SpecSm == RunSm /\ [][NextSm]_vars

SpecKms == RunKms /\ [][NextKms]_vars

SpecScan == RunScan /\ [][NextScan]_vars

\* The runs of the two KMS schedulers.
InitSchedulers ==
    \/ RunKms
    \/ RunTag

NextSchedulers ==
    \/ NextKms
    \/ NextTag

SpecSchedulers == InitSchedulers /\ [][NextSchedulers]_vars

SpecRerun == RunRerun /\ [][NextRerun]_vars

\* The runs of the tools that ask for a confirmation: the two KMS schedulers and
\* the profile teardown.
InitPrompt ==
    \/ RunKms
    \/ RunTag
    \/ RunSm

NextPrompt ==
    \/ NextKms
    \/ NextTag
    \/ NextSm

SpecPrompt == InitPrompt /\ [][NextPrompt]_vars

\* The runs of the two traversals of the organization.  Each tool is a sequential
\* program: while it has a step to take it takes one.
InitOrg ==
    \/ RunOus
    \/ RunPath

NextOrg ==
    \/ NextOus
    \/ NextPath

SpecOrg == InitOrg /\ [][NextOrg]_vars /\ WF_vars(NextOrg)

\* The runs of the two SageMaker tools: the profile teardown and the spaces cleanup.
InitSagemaker ==
    \/ RunSm
    \/ RunSpaces

NextSagemaker ==
    \/ NextSm
    \/ NextSpaces

SpecSagemaker == InitSagemaker /\ [][NextSagemaker]_vars

\* The runs of the three cleanups that judge resources on evidence of use.
InitCleanup ==
    \/ RunAmi
    \/ RunSg
    \/ RunKms

NextCleanup ==
    \/ NextAmi
    \/ NextSg
    \/ NextKms

SpecCleanup == InitCleanup /\ [][NextCleanup]_vars

\* The runs of the two EC2 cleanups.
InitEc2 ==
    \/ RunAmi
    \/ RunSg

NextEc2 ==
    \/ NextAmi
    \/ NextSg

SpecEc2 == InitEc2 /\ [][NextEc2]_vars

\* =====================================================================
\* Properties
\* =====================================================================
\* the calls of one operation made so far, as positions in calls
CallsOf(op) == {i \in 1..Len(calls) : calls[i].op = op}

\* a delete call for the dependent was made before position i of calls
CalledBefore(op, id, i) == \E j \in 1..(i - 1) : calls[j].op = op /\ calls[j].id = id

\* C1: an AMI that a running or stopped instance was seen to use (in_use_amis), or
\* a security group that a network interface was seen to hold (used_sg), is never
\* passed to deregister_image / delete_security_group, whatever its age, its name
\* or the --type filter.
C1_LiveReferenceNeverDeleted ==
    /\ \A i \in CallsOf("deregister_image") : calls[i].id \notin in_use_amis
    /\ \A i \in CallsOf("delete_security_group") : calls[i].id \notin used_sg

\* an AMI older than the retention period is in use and was passed over while
\* another one was deregistered
C1_Witness ==
    /\ prog = "ami" /\ pc = "done"
    /\ CallsOf("deregister_image") # {}
    /\ \E a \in in_use_amis :
          /\ a \in Range(owned_amis)
          /\ ami_creation[a] < Now - timedelta(retention_days)
          /\ \A i \in CallsOf("deregister_image") : calls[i].id # a

\* C2: when lookup_events is refused (TrailNotFoundException or
\* AccessDeniedException) no key is listed for deletion on the strength of the
\* empty usage map.
C2_NoVerdictWithoutTrail ==
    trail_error \in {"TrailNotFoundException", "AccessDeniedException"}
        => keys_info = <<>>

\* C3: when the enumeration of the holders (instances, network interfaces) fails,
\* no deregister or delete call is made on the basis of the empty or partial
\* in-use set.
C3_FailedEnumerationDeletesNothing ==
    scan_failed =>
        \A i \in CallsOf("deregister_image") \cup CallsOf("delete_security_group") :
            calls[i].dry

\* C4: in a dry run no step makes a mutating call (every call recorded carries
\* the DryRun flag) and no step changes the resources of the account: the
\* registered AMIs, the existing security groups and the states of the KMS keys
\* stay as they are.
C4_DryRunChangesNothing ==
    [][dry_run => /\ \A i \in 1..Len(calls') : calls'[i].dry
                  /\ registered' = registered
                  /\ sg_exists' = sg_exists
                  /\ kms_keys' = kms_keys]_vars

\* a dry run of the key cleanup went through its deletion loop to the end
C4_Witness ==
    /\ prog = "kms" /\ pc = "done"
    /\ dry_run
    /\ kms_success_count > 0

\* C5: whenever delete_user_profile is called, a delete call for every app and
\* every space found for the profile was made before it.
C5_DependentsBeforeProfile ==
    \A i \in CallsOf("delete_user_profile") :
        /\ \A a \in Range(apps) : CalledBefore("delete_app", a, i)
        /\ \A sp \in Range(spaces) : CalledBefore("delete_space", sp, i)

\* the profile was deleted after its apps and its spaces
C5_Witness ==
    /\ CallsOf("delete_user_profile") # {}
    /\ apps # <<>>
    /\ spaces # <<>>

\* C6: when the delete call of one dependent fails, the profile is not deleted
\* and every other dependent found for the profile still gets its delete call.
C6_SiblingsStillDeleted ==
    (prog = "sm" /\ pc = "done" /\ failed_deletes # {}) =>
        /\ CallsOf("delete_user_profile") = {}
        /\ \A a \in Range(apps) : CalledBefore("delete_app", a, Len(calls) + 1)
        /\ \A sp \in Range(spaces) : CalledBefore("delete_space", sp, Len(calls) + 1)

\* C7: the profile is never deleted while a dependent found for it has not
\* reached a terminal status (Deleted, Failed).
C7_NoProfileDeleteWhileActive ==
    CallsOf("delete_user_profile") # {} =>
        /\ Active(apps, app_status) = {}
        /\ Active(spaces, space_status) = {}

\* C8: the profile is deleted only if no dependent found for it was seen by the
\* polls with status Failed.
C8_FailedDependentSkipsProfile ==
    (CallsOf("delete_user_profile") # {} /\ ~poll_errors) =>
        /\ \A a \in Range(apps) : app_status[a] # "Failed"
        /\ \A sp \in Range(spaces) : space_status[sp] # "Failed"

\* the keys list_customer_managed_keys has gone through, before any deletion
Processed(k) == prog = "kms" /\ pc = "kms_list" /\ k < kms_idx

\* the key passes the filters that do not depend on usage
Candidate(k) ==
    /\ k \notin undescribed
    /\ kms_keys[k].KeyManager # "AWS"
    /\ kms_keys[k].KeyState # "PendingDeletion"
    /\ state_filter = "enabled" => kms_keys[k].KeyState = "Enabled"
    /\ state_filter = "disabled" => kms_keys[k].KeyState = "Disabled"

InKeysInfo(k) == \E i \in 1..Len(keys_info) : keys_info[i].KeyId = k

\* C9: a key whose last recorded use is exactly unused_days whole days ago is
\* listed (if it passes the manager and state filters), and a key whose last
\* recorded use is unused_days - 1 whole days ago is not.
C9_ThresholdInclusive ==
    \A k \in KeyIds :
        (Processed(k) /\ ~skip_usage_check /\ k \in DOMAIN key_usage_map) =>
            /\ (days(Now - key_usage_map[k]) = unused_days /\ Candidate(k))
                  => InKeysInfo(k)
            /\ days(Now - key_usage_map[k]) = unused_days - 1 => ~InKeysInfo(k)

\* a key last used exactly unused_days whole days ago has been listed
C9_Witness ==
    \E k \in KeyIds :
        /\ Processed(k) /\ ~skip_usage_check
        /\ k \in DOMAIN key_usage_map
        /\ days(Now - key_usage_map[k]) = unused_days
        /\ InKeysInfo(k)

\* C10: a key with no usage record that was created less than unused_days days
\* ago is never listed, its CreationDate missing from the metadata or not; an AMI
\* created less than retention_days days ago is never deregistered.
C10_TooYoungNeverEligible ==
    /\ \A i \in 1..Len(keys_info) :
          LET k == keys_info[i].KeyId IN
          (~skip_usage_check /\ k \notin DOMAIN key_usage_map)
              => ~(days(Now - kms_keys[k].Created) < unused_days)
    /\ \A i \in CallsOf("deregister_image") :
          ~(Now - ami_creation[calls[i].id] < timedelta(retention_days))

\* the name of the group contains "default", in whatever case
NamedDefault(sg_id) == contains(lower(group_names[sg_id]), default)

\* C11: a security group whose name contains "default" (case-insensitive) is
\* never passed to delete_security_group, is never logged as deleted or as
\* to be deleted in a dry run, and stays in the account.
C11_DefaultNeverDeleted ==
    prog = "sg" =>
        /\ \A i \in CallsOf("delete_security_group") : ~NamedDefault(calls[i].id)
        /\ \A j \in 1..Len(sg_log) :
              sg_log[j].what \in {"deleting", "would_delete"} => ~NamedDefault(sg_log[j].id)
        /\ \A g \in SgIds : NamedDefault(g) => g \in sg_exists

\* a group named Default-sg that no interface holds and that the type filter
\* selected was passed over, while another group was deleted
C11_Witness ==
    /\ prog = "sg" /\ pc = "done"
    /\ CallsOf("delete_security_group") # {}
    /\ \E g \in unused_sg :
          /\ group_names[g] = DefaultSg
          /\ ~Attached(g)
          /\ \E j \in 1..Len(sg_log) : sg_log[j] = Logged(g, DefaultSg, "skip_default")

\* C12: with the usage check on and the scan of the log complete, no listed key
\* (its creation date known) has a usage event in the log within the unused_days
\* days before now, whatever --unused-days and --check-usage-days are.
C12_ListedKeysUnusedForUnusedDays ==
    (prog = "kms" /\ ~skip_usage_check /\ trail_error = NoError) =>
        \A i \in 1..Len(keys_info) :
            LET k == keys_info[i].KeyId IN
            (last_usage[k] # None /\ kms_keys[k].CreationDate # None)
                => ~(days(Now - last_usage[k]) < unused_days)

\* C13: when the scan of the log ends on an error other than not-accessible
\* (throttling, retries exhausted), no key is listed for deletion from the map
\* built from the pages received until then.
C13_NoVerdictFromPartialMap ==
    (prog = "kms" /\ trail_error \notin {NoError, "TrailNotFoundException",
                                         "AccessDeniedException"})
        => keys_info = <<>>

\* the times of the usage events for the key among the events that were scanned
UsageTimes(k) ==
    {ScannedEvents[i].EventTime : i \in {j \in 1..Len(ScannedEvents) :
        /\ ScannedEvents[j].EventName \in kms_usage_events
        /\ NamesKey(ScannedEvents[j].ResourceName, k)}}

\* C14: after a complete scan the map holds, for each key, the latest time among
\* the scanned events that name the key and are usage events, and no entry for a
\* key without such an event; the scanned events count as a set, whatever their
\* order and their split into pages.
C14_MapHoldsLatestUsage ==
    (prog = "scan" /\ pc = "done" /\ trail_error = NoError) =>
        /\ DOMAIN key_usage_map \subseteq KeyIds
        /\ \A k \in KeyIds :
              IF UsageTimes(k) = {} THEN k \notin DOMAIN key_usage_map
              ELSE /\ k \in DOMAIN key_usage_map
                   /\ key_usage_map[k] \in UsageTimes(k)
                   /\ \A t \in UsageTimes(k) : t <= key_usage_map[k]

\* two usage events of one key came on two pages, the later one first, and the
\* map holds the time of the later one
C14_Witness ==
    /\ prog = "scan" /\ pc = "done" /\ trail_error = NoError
    /\ page_size = 1
    /\ Len(ScannedEvents) = 2
    /\ \E k \in KeyIds :
          /\ \A i \in 1..2 : /\ ScannedEvents[i].EventName \in kms_usage_events
                             /\ NamesKey(ScannedEvents[i].ResourceName, k)
          /\ ScannedEvents[1].EventTime > ScannedEvents[2].EventTime
          /\ key_usage_map[k] = ScannedEvents[1].EventTime

\* C15: after a complete scan, for every key id K of the account, a scanned usage
\* event that names the key by its bare id K or by an ARN ending in /K is found
\* by the lookup key_usage_map.get(K): the lookup gives a time, not earlier than
\* the event's.
C15_ArnAndBareIdFoundByLookup ==
    (prog = "scan" /\ pc = "done" /\ trail_error = NoError) =>
        \A k \in KeyIds : \A i \in 1..Len(ScannedEvents) :
            LET e == ScannedEvents[i] IN
            (e.EventName \in kms_usage_events
                /\ (e.ResourceName = <<k>> \/ e.ResourceName = <<ArnPrefix, k>>))
              => /\ Get(key_usage_map, k) # None
                 /\ Get(key_usage_map, k) >= e.EventTime

\* the only usage event of a key names it by its ARN, and the lookup by the bare
\* id finds the time of that event
C15_Witness ==
    /\ prog = "scan" /\ pc = "done" /\ trail_error = NoError
    /\ Len(ScannedEvents) = 1
    /\ ScannedEvents[1].EventName \in kms_usage_events
    /\ \E k \in KeyIds :
          /\ ScannedEvents[1].ResourceName = <<ArnPrefix, k>>
          /\ Get(key_usage_map, k) = ScannedEvents[1].EventTime

\* C16: a delete call on an app or a space that is already deleted or being
\* deleted is not counted as a failure.
C16_DeleteOfDeletedIsSuccess ==
    prog = "sm" =>
        /\ \A a \in AppIds :
              <<"app", a>> \in failed_deletes => app_status[a] \notin {"Deleting", "Deleted"}
        /\ \A sp \in SpaceIds :
              <<"space", sp>> \in failed_deletes
                  => space_status[sp] \notin {"Deleting", "Deleted"}

\* the entries of the log for one group
LogEntries(g) == {j \in 1..Len(sg_log) : sg_log[j].id = g}

\* C17: once delete_security_group was refused with DependencyViolation, the
\* refusal is logged for the refused group, which stays in the account; the run
\* does not abort, and every unused group is either still to be visited or has
\* its one entry in the log: when the run ends all of them have been processed.
C17_DependencyViolationHandled ==
    (prog = "sg" /\ \E j \in 1..Len(sg_log) : sg_log[j].what = "skip_dependent") =>
        /\ pc \in {"sg_delete", "done"}
        /\ \A j \in 1..Len(sg_log) :
              sg_log[j].what = "skip_dependent" =>
                  /\ sg_log[j].id \in sg_exists
                  /\ \E i \in CallsOf("delete_security_group") : calls[i].id = sg_log[j].id
        /\ \A g \in unused_sg :
              IF g \in todo_sg THEN LogEntries(g) = {} ELSE Cardinality(LogEntries(g)) = 1
        /\ pc = "done" => todo_sg = {}

\* the delete of one group was refused with DependencyViolation and the group
\* visited after it was deleted
C17_Witness ==
    /\ prog = "sg" /\ pc = "done"
    /\ Len(sg_log) = 2
    /\ sg_log[1].what = "skip_dependent"
    /\ sg_log[2].what = "deleting"
    /\ sg_log[2].id \notin sg_exists

\* the scheduling attempts that failed: the call was made and the key is not
\* pending deletion
FailedAttempts ==
    {i \in CallsOf("schedule_key_deletion") :
        kms_keys[calls[i].id].KeyState # "PendingDeletion"}

\* the run of a KMS scheduler has ended: main returned, or sys.exit was called
Ended == prog \in {"kms", "tag"} /\ pc \in {"done", "exited"}

\* C18: when the run has ended, the exit code is 0 if and only if no
\* scheduling attempt of the run failed.
C18_ExitCodeZeroIffNoFailedAttempt ==
    Ended => (exit_code = 0 <=> FailedAttempts = {})

\* C19: two dry runs in a row on the same account and the same trail, on the same
\* day, list the same keys for deletion (here: even when no API call of either
\* run failed).
C19_SameVerdictsOnRerun ==
    (prog = "rerun" /\ pc = "done" /\ ~faulty) => ListedIds(keys_info) = first_listed

\* the report of the run has been printed
Displayed == prog = "kms" /\ pc \in {"kms_schedule", "done"}

\* C20: once the report has been printed, every customer-managed key the run
\* discovered and could describe is in the table display_keys printed, the keys
\* judged not eligible included.
C20_EveryCandidateReported ==
    Displayed =>
        \A k \in KeyIds :
            (k \notin undescribed /\ kms_keys[k].KeyManager # "AWS")
                => k \in Range(display_keys(keys_info))

\* C21: in kms_delete_keys_by_tag no key of --exclude-keys is listed for deletion
\* or scheduled, and every key listed or scheduled carries the tag with the value
\* --tag-value.
C21_ExcludedNeverScheduledAndTagMatches ==
    prog = "tag" =>
        /\ \A i \in 1..Len(keys_info) :
              /\ keys_info[i].KeyId \notin exclude_key_ids
              /\ key_tags[keys_info[i].KeyId] = tag_value
        /\ \A i \in CallsOf("schedule_key_deletion") :
              /\ calls[i].id \notin exclude_key_ids
              /\ key_tags[calls[i].id] = tag_value

\* a run that schedules for real and is not cancelled has ended; a customer key
\* that is enabled and carries the wanted tag was excluded and is not scheduled
C21_Witness ==
    /\ prog = "tag" /\ pc = "done"
    /\ ~dry_run /\ no_confirm
    /\ \E k \in exclude_key_ids :
          /\ key_tags[k] = tag_value
          /\ kms_keys[k].KeyManager = "CUSTOMER"
          /\ kms_keys[k].KeyState = "Enabled"
          /\ k \notin undescribed

\* the state the key had when the run discovered it, as keys_info holds it
ListedWithState(k) ==
    {keys_info[j].State : j \in {i \in 1..Len(keys_info) : keys_info[i].KeyId = k}}

\* C22: under every --state filter, with or without the usage check, and in the
\* scheduler by tag, schedule_key_deletion is never called for a key that is
\* AWS-managed or that was in state PendingDeletion when the run discovered it.
C22_AwsAndPendingNeverScheduled ==
    prog \in {"kms", "tag"} =>
        /\ \A i \in 1..Len(keys_info) :
              /\ kms_keys[keys_info[i].KeyId].KeyManager # "AWS"
              /\ keys_info[i].State # "PendingDeletion"
              /\ calls = <<>> => keys_info[i].State = kms_keys[keys_info[i].KeyId].KeyState
        /\ \A i \in CallsOf("schedule_key_deletion") :
              /\ kms_keys[calls[i].id].KeyManager # "AWS"
              /\ ListedWithState(calls[i].id) # {}
              /\ "PendingDeletion" \notin ListedWithState(calls[i].id)

\* a run of kms_delete_unused_keys that schedules for real, without usage check
\* and state filter, has ended; a key that was pending deletion was described and
\* no call was made
C22_Witness ==
    /\ prog = "kms" /\ pc = "done"
    /\ ~dry_run /\ no_confirm /\ skip_usage_check /\ state_filter = "all"
    /\ calls = <<>>
    /\ \E k \in KeyIds :
          /\ k \notin undescribed
          /\ kms_keys[k].KeyManager = "CUSTOMER"
          /\ kms_keys[k].KeyState = "PendingDeletion"

\* the run has issued a destructive call
Destructive ==
    \E i \in 1..Len(calls) :
        calls[i].op \in {"schedule_key_deletion", "delete_app", "delete_space",
                         "delete_user_profile"}

\* the operator was asked and the run has ended
Answered == typed # NotAsked /\ pc = "done"

C24_TraversalsTerminate ==
    <>(prog \in {"ous", "path"} /\ pc \in {"done", "exited"})

\* C25: a wait reports that all dependents are deleted only when none of them is
\* active; a poll whose listing failed leaves the wait going.
C25_FailedPollKeepsPending ==
    [][(prog = "sm" /\ pc \in {"sm_wait_apps", "sm_wait_spaces"} /\ pc' # pc
            /\ ~timed_out') =>
          /\ pc = "sm_wait_apps" => Active(apps, app_status) = {}
          /\ pc = "sm_wait_spaces" => Active(spaces, space_status) = {}]_vars

\* C26: once the AMIs are selected, an owned AMI that is not in use and was
\* created exactly retention_days days before now is among the AMIs to deregister,
\* and one whose age is a day less is not.
C26_AgeBoundaryInclusive ==
    (prog = "ami" /\ pc = "ami_deregister") =>
        \A a \in Range(owned_amis) :
            /\ (a \notin in_use_amis /\ Now - ami_creation[a] = timedelta(retention_days))
                  => a \in Range(amis_to_delete)
            /\ Now - ami_creation[a] = timedelta(retention_days - 1)
                  => a \notin Range(amis_to_delete)

\* C27: with --skip-usage-check the keys listed are exactly the customer-managed
\* keys that pass the state filter and are not pending deletion, whatever the
\* trail holds and whenever the keys were created (so two runs that differ only
\* in the trail and in the creation dates list the same keys).
C27_SkipUsageCheckIgnoresUsageAndAge ==
    \A k \in KeyIds :
        (Processed(k) /\ skip_usage_check) => (InKeysInfo(k) <=> Candidate(k))

\* with --skip-usage-check a key that was used less than a day ago and created
\* less than unused_days days ago is listed
C27_Witness ==
    \E k \in KeyIds :
        /\ Processed(k) /\ skip_usage_check
        /\ InKeysInfo(k)
        /\ last_usage[k] = Now - (TicksPerDay - 1)
        /\ days(Now - kms_keys[k].Created) < unused_days

\* C28: in the profile teardown every delete_space call comes after the delete_app
\* calls for all the apps found; the loop over the spaces is entered only after
\* wait_for_apps_deletion returned True (or when no app was found); when the app
\* wait times out the run ends and has made no delete_space and no
\* delete_user_profile call.
C28_AppsBeforeSpaces ==
    /\ [](prog = "sm" =>
            \A i \in CallsOf("delete_space") :
                \A a \in Range(apps) : CalledBefore("delete_app", a, i))
    /\ [][(prog = "sm" /\ pc # "sm_delete_spaces" /\ pc' = "sm_delete_spaces") =>
             \/ pc = "sm_confirm" /\ apps = <<>>
             \/ /\ pc = "sm_wait_apps" /\ ~timed_out'
                /\ \A a \in Range(apps) : CalledBefore("delete_app", a, Len(calls) + 1)]_vars
    /\ [][(prog = "sm" /\ pc = "sm_wait_apps" /\ timed_out') =>
             /\ pc' = "done"
             /\ CallsOf("delete_space")' = {}
             /\ CallsOf("delete_user_profile")' = {}]_vars

\* the wait for the apps timed out in a teardown of a profile that has a space:
\* the app was asked to be deleted, the space and the profile were not
C28_Witness ==
    /\ prog = "sm" /\ pc = "done" /\ timed_out
    /\ spaces # <<>>
    /\ CallsOf("delete_app") # {}
    /\ CallsOf("delete_space") = {}
    /\ CallsOf("delete_user_profile") = {}

\* C29: whatever ClientError the describe_security_groups lookup or the delete
\* call of a group raises, delete_unused_security_groups does not raise, the error
\* is logged with the id and the name of the group being handled, and every
\* unused group is handled: still to be visited, or with its one entry in the log.
C29_EveryClientErrorHandledInLoop ==
    prog = "sg" =>
        /\ pc # "crashed"
        /\ \A j \in 1..Len(sg_log) :
              sg_log[j].what = "error" => sg_log[j].name = group_names[sg_log[j].id]
        /\ pc \in {"sg_delete", "done"} =>
              \A g \in unused_sg :
                  IF g \in todo_sg THEN LogEntries(g) = {}
                  ELSE Cardinality(LogEntries(g)) = 1


\* The statuses of a resource that is already on its way out.
OnItsWayOut == {"Deleting", "Delete_Failed"}

\* C30: the spaces cleanup issues no delete call for a space, and the profile
\* teardown none for a user profile, whose status at discovery was Deleting or
\* Delete_Failed.
C30_OnItsWayOutNeverDeleted ==
    /\ prog = "spaces" =>
          \A i \in CallsOf("delete_space") : found[calls[i].id] \notin OnItsWayOut
    /\ prog = "sm" =>
          (CallsOf("delete_user_profile") # {} => found[1] \notin OnItsWayOut)

\* the cleanup ended after it deleted a space, and never touched the other
\* space, which its listing gave as being deleted
C30_Witness ==
    /\ prog = "spaces" /\ pc = "done"
    /\ CallsOf("delete_space") # {}
    /\ \A i \in CallsOf("delete_space") : calls[i].id = 2
    /\ found[1] = "Deleting"

====
